---------------------------- MODULE Spec2Model ----------------------------
(***************************************************************************)
(* The memory store of packages/stage-ui (stores/memory.ts): the entry     *)
(* collection, its configuration flags, the asynchronous storeMemory and   *)
(* searchMemories with their two await points, the synchronous reads and   *)
(* mutations, and the cosine-similarity ranking; and the chat integration  *)
(* built on it (useMemoryIntegration): the importance scorer and the       *)
(* lifecycle hooks that store chat messages.                               *)
(*                                                                         *)
(* Conventions.  An optional JavaScript value (a field or argument that    *)
(* may be undefined) is a sequence of length 0 or 1: None is undefined,    *)
(* Some(x) is x.  Similarities and thresholds are counted in hundredths    *)
(* (70 is 0.7); the embedding vectors of the model have integer norms and  *)
(* dot products a multiple of a quarter of the norm product, so that       *)
(* Math.sqrt and the final division are exact in IEEE doubles and in the   *)
(* integers alike.  An entry id `mem_<ms>_<suffix>` is the pair            *)
(* <<ms, suffix>>.                                                         *)
(***************************************************************************)
EXTENDS Integers, Sequences, FiniteSets, TLC

VARIABLES
    memories,               \* memory.ts:37  the entry collection
    memoryEnabled,          \* memory.ts:38
    memoryEmbedProviderId,  \* memory.ts:40
    memoryEmbedModel,       \* memory.ts:42
    now,                    \* the millisecond clock read by Date.now()
    calls,                  \* the storeMemory / searchMemories calls in flight
    last,                   \* what the step just taken completed: an operation with its
                            \* arguments and result, or NoOperation
    hooksSetup,             \* useMemoryIntegration: let hooksSetup
    hooks,                  \* callbacks registered with the chat store, per lifecycle event
    activeSessionId,        \* chatStore.activeSessionId
    effectPending           \* the watchEffect of useMemoryIntegration is due to run

vars == <<memories, memoryEnabled, memoryEmbedProviderId, memoryEmbedModel,
          now, calls, last, hooksSetup, hooks, activeSessionId, effectPending>>

\* The state of the chat integration, which the store does not touch
integrationVars == <<hooksSetup, hooks, activeSessionId, effectPending>>

-----------------------------------------------------------------------------
(* Bounds of the model *)

MaxMemories == 2   \* storeMemory is not invoked once the collection and the calls in flight hold this many entries
MaxTime == 1       \* the clock runs over 0..MaxTime
MaxCalls == 1      \* asynchronous calls in flight at once
MaxRankLen == 3     \* longest collection the ranking specification starts from
MaxMutateLen == 2   \* longest collection the specification of the synchronous writes starts from
MaxParts == 2       \* parts of a message whose content is an array
MaxHooks == 2       \* callbacks of one lifecycle event that can have a storeMemory call in flight at once
MaxOverlap == 2     \* calls in flight at once in the specifications of overlapping calls
MaxPageLen == 3     \* longest collection the memory settings page is opened on

(* Program constants *)

DefaultLimit == 5          \* memory.ts:111  limit = 5
DefaultThreshold == 70     \* memory.ts:111  threshold = 0.7
DefaultRecentLimit == 10   \* memory.ts:158  limit = 10
DoubleErrOfPointOne == 4   \* the double 0.1 is 1/10 + 4/(10 * 2^56)

-----------------------------------------------------------------------------
(* JavaScript values *)

None == <<>>
Some(x) == <<x>>
IsSome(o) == Len(o) = 1
Get(o) == o[1]

JSBool(b) == [type |-> "boolean", bool |-> b]
JSStr(s) == [type |-> "string", str |-> s]

\* ToBoolean of a boolean or a string
Truthy(v) == IF v.type = "boolean" THEN v.bool ELSE v.str # ""

\* a && b: the left operand when it is falsy, the right operand otherwise
JSAnd(a, b) == IF Truthy(a) THEN b ELSE a

\* ToBoolean of an optional string: undefined and '' are falsy
TruthyOpt(o) == IsSome(o) /\ Get(o) # ""

Min(a, b) == IF a <= b THEN a ELSE b
Max(a, b) == IF a >= b THEN a ELSE b

\* Array.prototype.slice(start, end) on a sequence (0-based, end exclusive,
\* a negative index counts from the end)
RelIndex(k, len) == IF k < 0 THEN Max(len + k, 0) ELSE Min(k, len)

Slice(s, start, end) ==
    LET from == RelIndex(start, Len(s))
        to == RelIndex(end, Len(s))
    IN  IF from >= to THEN <<>> ELSE SubSeq(s, from + 1, to)

\* Array.prototype.filter is SelectSeq.

\* The elements of a sequence
Range(s) == {s[i] : i \in DOMAIN s}

\* Mutant of InsertSorted: an unstable sort, x goes in front of the elements
\* that compare equal
InsertSortedUnstable(t, x, compare) ==
    LET pos == IF \E j \in 1..Len(t) : compare[t[j], x] >= 0
               THEN CHOOSE j \in 1..Len(t) :
                        /\ compare[t[j], x] >= 0
                        /\ \A i \in 1..(j - 1) : compare[t[i], x] < 0
               ELSE Len(t) + 1
    IN  SubSeq(t, 1, pos - 1) \o <<x>> \o SubSeq(t, pos, Len(t))

\* x put into the sorted sequence t in front of the first element y with
\* compare(y, x) > 0, behind every element that compares equal
InsertSorted(t, x, compare) ==
    LET pos == IF \E j \in 1..Len(t) : compare[t[j], x] > 0
               THEN CHOOSE j \in 1..Len(t) :
                        /\ compare[t[j], x] > 0
                        /\ \A i \in 1..(j - 1) : compare[t[i], x] <= 0
               ELSE Len(t) + 1
    IN  SubSeq(t, 1, pos - 1) \o <<x>> \o SubSeq(t, pos, Len(t))

\* Array.prototype.sort(compare), which is stable (ECMAScript 2019); compare
\* is the comparison function, given on the elements of s
Sort(s, compare) ==
    LET S[i \in 0..Len(s)] ==
            IF i = 0 THEN <<>> ELSE InsertSorted(S[i - 1], s[i], compare)
    IN  S[Len(s)]

-----------------------------------------------------------------------------
(* Configuration *)

\* Mutant of isConfigured: only the enabled flag is looked at
isConfiguredEnabledOnly == JSBool(memoryEnabled)

\* computed(() => memoryEnabled.value && memoryEmbedProviderId.value && memoryEmbedModel.value)
isConfigured ==
    JSAnd(JSAnd(JSBool(memoryEnabled), JSStr(memoryEmbedProviderId)),
          JSStr(memoryEmbedModel))

ProviderIds == {"", "p"}
ModelIds == {"", "m"}


-----------------------------------------------------------------------------
(* Entries *)

Suffixes == {"k3f", "z9q"}   \* values of Math.random().toString(36).substring(2, 9)

\* `mem_${Date.now()}_${suffix}`
MemoryId(ms, suffix) == <<ms, suffix>>

Ids == {MemoryId(ms, suffix) : ms \in 0..MaxTime, suffix \in Suffixes}

\* metadata.source || 'chat'
SourceOrChat(source) == IF TruthyOpt(source) THEN Get(source) ELSE "chat"

\* The entry storeMemory builds before it asks for the embedding
NewEntry(content, metadata, idMs, suffix, timestampMs) ==
    [id |-> MemoryId(idMs, suffix),
     content |-> content,
     embedding |-> None,
     metadata |-> [timestamp |-> timestampMs,
                   source |-> SourceOrChat(metadata.source),
                   importance |-> metadata.importance,
                   tags |-> metadata.tags],
     sessionId |-> metadata.sessionId]

-----------------------------------------------------------------------------
(* Similarity *)

RECURSIVE Dot(_, _)
Dot(a, b) == IF a = <<>> THEN 0 ELSE Head(a) * Head(b) + Dot(Tail(a), Tail(b))

\* Math.sqrt of a sum of squares (exact on the vectors of the model)
Sqrt(n) == CHOOSE r \in 0..n : r * r <= n /\ (r + 1) * (r + 1) > n

\* Mutant of cosineSimilarity: vectors of different lengths are compared on
\* their common prefix
cosineSimilarityPrefix(a, b) ==
    LET n == Min(Len(a), Len(b))
        dotProduct == Dot(SubSeq(a, 1, n), SubSeq(b, 1, n))
        normA == Sqrt(Dot(SubSeq(a, 1, n), SubSeq(a, 1, n)))
        normB == Sqrt(Dot(SubSeq(b, 1, n), SubSeq(b, 1, n)))
    IN  IF normA = 0 \/ normB = 0 THEN 0
        ELSE (dotProduct * 100) \div (normA * normB)

\* cosineSimilarity(a, b), in hundredths
cosineSimilarity(a, b) ==
    IF Len(a) # Len(b) THEN 0
    ELSE LET dotProduct == Dot(a, b)
             normA == Sqrt(Dot(a, a))
             normB == Sqrt(Dot(b, b))
         IN  IF normA = 0 \/ normB = 0 THEN 0
             ELSE (dotProduct * 100) \div (normA * normB)

\* The divisor normA * normB of the division that cosineSimilarity(a, b)
\* performs, None when it returns before dividing
CosineDivisor(a, b) ==
    IF Len(a) # Len(b) THEN None
    ELSE LET normA == Sqrt(Dot(a, a))
             normB == Sqrt(Dot(b, b))
         IN  IF normA = 0 \/ normB = 0 THEN None ELSE Some(normA * normB)

-----------------------------------------------------------------------------
(* searchMemories and getRecentMemories on a given collection *)

\* if (sessionId) filteredMemories = memories.value.filter(m => m.sessionId === sessionId)
FilterBySession(collection, sessionId) ==
    IF TruthyOpt(sessionId)
    THEN LET SameSession(m) == m.sessionId = sessionId
         IN  SelectSeq(collection, SameSession)
    ELSE collection

\* memory.embedding && memory.embedding.length > 0
HasEmbedding(memory) == IsSome(memory.embedding) /\ Len(Get(memory.embedding)) > 0

\* Mutant of PassesThreshold: a similarity equal to the threshold is dropped
PassesThresholdStrict(similarity, threshold) == similarity > threshold

\* result.similarity >= threshold
PassesThreshold(similarity, threshold) == similarity >= threshold

\* Mutant of BySimilarityDesc: the results are sorted by ascending similarity
BySimilarityAsc(a, b) == a.similarity - b.similarity

\* (a, b) => b.similarity - a.similarity
BySimilarityDesc(a, b) == b.similarity - a.similarity

\* { query, limit = 5, threshold = 0.7, sessionId } = options
LimitOf(options) == IF IsSome(options.limit) THEN Get(options.limit) ELSE DefaultLimit
ThresholdOf(options) ==
    IF IsSome(options.threshold) THEN Get(options.threshold) ELSE DefaultThreshold

\* The chain filter / map / filter / sort / slice of searchMemories
RankMemories(collection, queryEmbedding, options) ==
    LET filteredMemories == FilterBySession(collection, options.sessionId)
        embedded == SelectSeq(filteredMemories, HasEmbedding)
        scored == [i \in 1..Len(embedded) |->
                      [entry |-> embedded[i],
                       similarity |-> cosineSimilarity(queryEmbedding,
                                                       Get(embedded[i].embedding))]]
        Above(r) == PassesThreshold(r.similarity, ThresholdOf(options))
        kept == SelectSeq(scored, Above)
        compare == [a, b \in Range(kept) |-> BySimilarityDesc(a, b)]
    IN  Slice(Sort(kept, compare), 0, LimitOf(options))

\* (a, b) => b.metadata.timestamp - a.metadata.timestamp
ByTimestampDesc(a, b) == b.metadata.timestamp - a.metadata.timestamp

\* getRecentMemories(limit = 10, sessionId?)
RecentMemories(collection, limit, sessionId) ==
    LET filteredMemories == FilterBySession(collection, sessionId)
        compare == [a, b \in Range(filteredMemories) |-> ByTimestampDesc(a, b)]
    IN  Slice(Sort(filteredMemories, compare), 0,
              IF IsSome(limit) THEN Get(limit) ELSE DefaultRecentLimit)

-----------------------------------------------------------------------------
(* The embedding provider, seen from the store *)

\* providersStore.getProviderInstance(id) followed by embedProvider.embed(model):
\* the lookup (or embed) throws, the result has no `generate`, or it has one
LookupOutcomes == {"throws", "noGenerate", "ok"}

\* generate({ input }): it throws, the result has no data item, or data[0]
\* carries a vector
GenerateOutcomes(vectors) ==
    {[kind |-> "throws"], [kind |-> "noData"]}
        \cup {[kind |-> "data", embedding |-> v] : v \in vectors}

\* generate resolves with a result whose data cannot be read as embedding
\* items (data[0] is not an object): reading result.data[0].embedding throws
MalformedOutcome == [kind |-> "malformed"]

-----------------------------------------------------------------------------
(* Calls in flight *)

Slots == DOMAIN calls
IdleCall == [op |-> "idle"]

\* The step completed no operation (a configuration change, a clock tick, a call
\* reaching an await)
NoOperation == [op |-> "none"]

\* A new call takes the lowest free slot
FreeSlot(c) ==
    /\ calls[c].op = "idle"
    /\ \A d \in 1..(c - 1) : calls[d].op # "idle"

\* The configuration refs as an operation finds them when it is invoked
ConfigNow ==
    [enabled |-> memoryEnabled, providerId |-> memoryEmbedProviderId,
     model |-> memoryEmbedModel]

StoresInFlight == Cardinality({c \in Slots : calls[c].op = "storeMemory"})


-----------------------------------------------------------------------------
(* Configuration changes (the refs are written by the settings page) and time *)

SetMemoryEnabled(b) ==
    /\ memoryEnabled # b
    /\ memoryEnabled' = b
    /\ last' = NoOperation
    /\ UNCHANGED <<memories, memoryEmbedProviderId, memoryEmbedModel, now, calls>>

SetMemoryEmbedProviderId(p) ==
    /\ memoryEmbedProviderId # p
    /\ memoryEmbedProviderId' = p
    /\ last' = NoOperation
    /\ UNCHANGED <<memories, memoryEnabled, memoryEmbedModel, now, calls>>

SetMemoryEmbedModel(m) ==
    /\ memoryEmbedModel # m
    /\ memoryEmbedModel' = m
    /\ last' = NoOperation
    /\ UNCHANGED <<memories, memoryEnabled, memoryEmbedProviderId, now, calls>>

\* The clock moves to the next millisecond
Tick ==
    /\ now < MaxTime
    /\ now' = now + 1
    /\ last' = NoOperation
    /\ UNCHANGED <<memories, memoryEnabled, memoryEmbedProviderId, memoryEmbedModel,
                   calls>>

-----------------------------------------------------------------------------
(* storeMemory *)

\* Mutant of StoreFinish: an entry whose embedding could not be generated is
\* returned but not stored
StoreFinishOnlyEmbedded(c, entry, config, outcome, awaits, requests) ==
    /\ memories' = IF IsSome(entry.embedding) THEN Append(memories, entry) ELSE memories
    /\ calls' = [calls EXCEPT ![c] = IdleCall]
    /\ last' = [op |-> "storeMemory", config |-> config, outcome |-> outcome,
                ret |-> Some(entry), before |-> memories, awaits |-> awaits,
                requests |-> requests]

\* Mutant of StoreFinish: the entry is appended to the collection as it was
\* before the call's millisecond and the result is written back
StoreFinishStale(c, entry, config, outcome, awaits, requests) ==
    /\ LET Older(m) == m.metadata.timestamp < entry.metadata.timestamp
       IN  memories' = Append(SelectSeq(memories, Older), entry)
    /\ calls' = [calls EXCEPT ![c] = IdleCall]
    /\ last' = [op |-> "storeMemory", config |-> config, outcome |-> outcome,
                ret |-> Some(entry), before |-> memories, awaits |-> awaits,
                requests |-> requests]

\* Mutant of StoreFinish: the configuration is checked again before the push
StoreFinishRechecked(c, entry, config, outcome, awaits, requests) ==
    /\ memories' = IF Truthy(isConfigured) THEN Append(memories, entry) ELSE memories
    /\ calls' = [calls EXCEPT ![c] = IdleCall]
    /\ last' = [op |-> "storeMemory", config |-> config, outcome |-> outcome,
                ret |-> Some(entry), before |-> memories, awaits |-> awaits,
                requests |-> requests]

\* memories.value.push(entry); return entry
StoreFinish(c, entry, config, outcome, awaits, requests) ==
    /\ memories' = Append(memories, entry)
    /\ calls' = [calls EXCEPT ![c] = IdleCall]
    /\ last' = [op |-> "storeMemory", config |-> config, outcome |-> outcome,
                ret |-> Some(entry), before |-> memories, awaits |-> awaits,
                requests |-> requests]

\* storeMemory(content, metadata) up to its first await.  Both Date.now() reads
\* of the synchronous prefix fall in the current millisecond.
StoreCall(c, content, metadata, suffix) ==
    /\ FreeSlot(c)
    /\ IF ~Truthy(isConfigured)
       THEN /\ last' = [op |-> "storeMemory", config |-> ConfigNow,
                        outcome |-> "notConfigured", ret |-> None,
                        before |-> memories, awaits |-> 0, requests |-> 0,
                        content |-> content, metadata |-> metadata]
            /\ UNCHANGED <<memories, calls>>
       ELSE /\ Len(memories) + StoresInFlight < MaxMemories
            /\ LET entry == NewEntry(content, metadata, now, suffix, now)
               IN  IF memoryEmbedProviderId # "" /\ memoryEmbedModel # ""
                   THEN /\ calls' = [calls EXCEPT ![c] =
                                [op |-> "storeMemory", pc |-> "awaitProvider",
                                 entry |-> entry, config |-> ConfigNow,
                                 providerId |-> memoryEmbedProviderId]]
                        /\ last' = NoOperation
                        /\ UNCHANGED memories
                   ELSE StoreFinish(c, entry, ConfigNow, "noProvider", 0, 0)
    /\ UNCHANGED <<memoryEnabled, memoryEmbedProviderId, memoryEmbedModel, now>>

\* Mutant of StoreProviderResolved: a lookup that throws ends the call before
\* the push
StoreProviderResolvedRethrows(c, outcome) ==
    /\ calls[c].op = "storeMemory"
    /\ calls[c].pc = "awaitProvider"
    /\ CASE outcome = "throws" ->
              /\ calls' = [calls EXCEPT ![c] = IdleCall]
              /\ last' = [op |-> "storeMemory", config |-> calls[c].config,
                          outcome |-> "raised", ret |-> None, before |-> memories,
                          awaits |-> 1, requests |-> 0]
              /\ UNCHANGED memories
         [] outcome = "noGenerate" ->
              StoreFinish(c, calls[c].entry, calls[c].config, "noGenerate", 1, 0)
         [] outcome = "ok" ->
              /\ calls' = [calls EXCEPT ![c] =
                      [op |-> "storeMemory", pc |-> "awaitGenerate",
                       entry |-> calls[c].entry, config |-> calls[c].config,
                       providerId |-> calls[c].providerId,
                       model |-> memoryEmbedModel]]
              /\ last' = NoOperation
              /\ UNCHANGED memories
    /\ UNCHANGED <<memoryEnabled, memoryEmbedProviderId, memoryEmbedModel, now>>

\* The provider lookup settles: embed(memoryEmbedModel.value) is evaluated now
StoreProviderResolved(c, outcome) ==
    /\ calls[c].op = "storeMemory"
    /\ calls[c].pc = "awaitProvider"
    /\ CASE outcome = "throws" ->
              StoreFinish(c, calls[c].entry, calls[c].config, "lookupThrows", 1, 0)
         [] outcome = "noGenerate" ->
              StoreFinish(c, calls[c].entry, calls[c].config, "noGenerate", 1, 0)
         [] outcome = "ok" ->
              /\ calls' = [calls EXCEPT ![c] =
                      [op |-> "storeMemory", pc |-> "awaitGenerate",
                       entry |-> calls[c].entry, config |-> calls[c].config,
                       providerId |-> calls[c].providerId,
                       model |-> memoryEmbedModel]]
              /\ last' = NoOperation
              /\ UNCHANGED memories
    /\ UNCHANGED <<memoryEnabled, memoryEmbedProviderId, memoryEmbedModel, now>>

\* Mutant of StoreGenerateResolved: no catch around the generation, a failure
\* leaves storeMemory before the push
StoreGenerateResolvedUncaught(c, outcome) ==
    /\ calls[c].op = "storeMemory"
    /\ calls[c].pc = "awaitGenerate"
    /\ IF outcome.kind = "data"
       THEN StoreFinish(c, [calls[c].entry EXCEPT !.embedding = Some(outcome.embedding)],
                        calls[c].config, "embedded", 2, 1)
       ELSE /\ calls' = [calls EXCEPT ![c] = IdleCall]
            /\ last' = [op |-> "storeMemory", config |-> calls[c].config,
                        outcome |-> "raised", ret |-> None, before |-> memories,
                        awaits |-> 2, requests |-> 1]
            /\ UNCHANGED memories
    /\ UNCHANGED <<memoryEnabled, memoryEmbedProviderId, memoryEmbedModel, now>>

\* generate({ input: content }) settles
StoreGenerateResolved(c, outcome) ==
    /\ calls[c].op = "storeMemory"
    /\ calls[c].pc = "awaitGenerate"
    /\ CASE outcome.kind = "throws" ->
              StoreFinish(c, calls[c].entry, calls[c].config, "generateThrows", 2, 1)
         [] outcome.kind = "noData" ->
              StoreFinish(c, calls[c].entry, calls[c].config, "noData", 2, 1)
         [] outcome.kind = "malformed" ->
              StoreFinish(c, calls[c].entry, calls[c].config, "malformed", 2, 1)
         [] outcome.kind = "data" ->
              StoreFinish(c, [calls[c].entry EXCEPT !.embedding = Some(outcome.embedding)],
                          calls[c].config, "embedded", 2, 1)
    /\ UNCHANGED <<memoryEnabled, memoryEmbedProviderId, memoryEmbedModel, now>>

-----------------------------------------------------------------------------
(* searchMemories *)

\* Mutant of SearchFinish: a search that cannot rank falls back to the stored
\* entries that carry a vector
SearchFinishFallback(c, options, at, results, outcome, awaits, requests) ==
    /\ calls' = [calls EXCEPT ![c] = IdleCall]
    /\ last' = [op |-> "searchMemories", at |-> at, outcome |-> outcome,
                options |-> options,
                ret |-> IF outcome = "early" THEN results
                        ELSE LET WithVector(m) ==
                                     IsSome(m.embedding) /\ Len(Get(m.embedding)) > 0
                                 kept == SelectSeq(memories, WithVector)
                             IN  [i \in 1..Len(kept) |->
                                     [entry |-> kept[i], similarity |-> 0]],
                awaits |-> awaits, requests |-> requests]
    /\ UNCHANGED memories

\* `at` is what the call found when it was invoked: the configuration and
\* whether the collection was empty
SearchFinish(c, options, at, results, outcome, awaits, requests) ==
    /\ calls' = [calls EXCEPT ![c] = IdleCall]
    /\ last' = [op |-> "searchMemories", at |-> at, outcome |-> outcome,
                options |-> options, ret |-> results, awaits |-> awaits,
                requests |-> requests]
    /\ UNCHANGED memories

AtCall == [config |-> ConfigNow, empty |-> Len(memories) = 0]

\* Mutant of SearchCall: the empty collection is not checked for
SearchCallNoEmptyCheck(c, options) ==
    /\ FreeSlot(c)
    /\ IF ~Truthy(isConfigured)
       THEN SearchFinish(c, options, AtCall, <<>>, "early", 0, 0)
       ELSE /\ calls' = [calls EXCEPT ![c] =
                    [op |-> "searchMemories", pc |-> "awaitProvider",
                     options |-> options, at |-> AtCall,
                     providerId |-> memoryEmbedProviderId]]
            /\ last' = NoOperation
            /\ UNCHANGED memories
    /\ UNCHANGED <<memoryEnabled, memoryEmbedProviderId, memoryEmbedModel, now>>

\* searchMemories(options) up to its first await
SearchCall(c, options) ==
    /\ FreeSlot(c)
    /\ IF ~Truthy(isConfigured) \/ Len(memories) = 0
       THEN SearchFinish(c, options, AtCall, <<>>, "early", 0, 0)
       ELSE /\ calls' = [calls EXCEPT ![c] =
                    [op |-> "searchMemories", pc |-> "awaitProvider",
                     options |-> options, at |-> AtCall,
                     providerId |-> memoryEmbedProviderId]]
            /\ last' = NoOperation
            /\ UNCHANGED memories
    /\ UNCHANGED <<memoryEnabled, memoryEmbedProviderId, memoryEmbedModel, now>>

SearchProviderResolved(c, outcome) ==
    /\ calls[c].op = "searchMemories"
    /\ calls[c].pc = "awaitProvider"
    /\ CASE outcome = "throws" ->
              SearchFinish(c, calls[c].options, calls[c].at, <<>>, "lookupThrows", 1, 0)
         [] outcome = "noGenerate" ->
              SearchFinish(c, calls[c].options, calls[c].at, <<>>, "noGenerate", 1, 0)
         [] outcome = "ok" ->
              /\ calls' = [calls EXCEPT ![c] =
                      [op |-> "searchMemories", pc |-> "awaitGenerate",
                       options |-> calls[c].options, at |-> calls[c].at,
                       providerId |-> calls[c].providerId,
                       model |-> memoryEmbedModel]]
              /\ last' = NoOperation
              /\ UNCHANGED memories
    /\ UNCHANGED <<memoryEnabled, memoryEmbedProviderId, memoryEmbedModel, now>>

\* The query passed by a search invoked on a collection of 0, 1, 2, 3 entries, in
\* the specification where the caller names its searches so
QueryNames == <<"none", "one", "two", "three">>

\* Entries the collection held when the search with that query was invoked
HeldAtCall(query) == (CHOOSE k \in DOMAIN QueryNames : QueryNames[k] = query) - 1

\* Mutant of SearchGenerateResolved: only the entries at the positions that
\* existed when the search was invoked are ranked
SearchGenerateResolvedAtCall(c, outcome) ==
    /\ calls[c].op = "searchMemories"
    /\ calls[c].pc = "awaitGenerate"
    /\ CASE outcome.kind = "throws" ->
              SearchFinish(c, calls[c].options, calls[c].at, <<>>, "generateThrows", 2, 1)
         [] outcome.kind = "noData" ->
              SearchFinish(c, calls[c].options, calls[c].at, <<>>, "noData", 2, 1)
         [] outcome.kind = "malformed" ->
              SearchFinish(c, calls[c].options, calls[c].at, <<>>, "malformed", 2, 1)
         [] outcome.kind = "data" ->
              /\ calls' = [calls EXCEPT ![c] = IdleCall]
              /\ last' = [op |-> "searchMemories", at |-> calls[c].at,
                          outcome |-> "ranked", options |-> calls[c].options,
                          queryEmbedding |-> outcome.embedding,
                          ret |-> RankMemories(
                                      SubSeq(memories, 1,
                                             Min(Len(memories),
                                                 HeldAtCall(calls[c].options.query))),
                                      outcome.embedding, calls[c].options),
                          awaits |-> 2, requests |-> 1]
              /\ UNCHANGED memories
    /\ UNCHANGED <<memoryEnabled, memoryEmbedProviderId, memoryEmbedModel, now>>

\* generate({ input: query }) settles; the collection is read now
SearchGenerateResolved(c, outcome) ==
    /\ calls[c].op = "searchMemories"
    /\ calls[c].pc = "awaitGenerate"
    /\ CASE outcome.kind = "throws" ->
              SearchFinish(c, calls[c].options, calls[c].at, <<>>, "generateThrows", 2, 1)
         [] outcome.kind = "noData" ->
              SearchFinish(c, calls[c].options, calls[c].at, <<>>, "noData", 2, 1)
         [] outcome.kind = "malformed" ->
              SearchFinish(c, calls[c].options, calls[c].at, <<>>, "malformed", 2, 1)
         [] outcome.kind = "data" ->
              /\ calls' = [calls EXCEPT ![c] = IdleCall]
              /\ last' = [op |-> "searchMemories", at |-> calls[c].at,
                          outcome |-> "ranked", options |-> calls[c].options,
                          queryEmbedding |-> outcome.embedding,
                          ret |-> RankMemories(memories, outcome.embedding,
                                               calls[c].options),
                          awaits |-> 2, requests |-> 1]
              /\ UNCHANGED memories
    /\ UNCHANGED <<memoryEnabled, memoryEmbedProviderId, memoryEmbedModel, now>>


-----------------------------------------------------------------------------
(* The synchronous operations *)

\* Mutant of GetRecentMemories: without a session filter the stored array
\* itself is sorted, not a copy of it
GetRecentMemoriesInPlace(limit, sessionId) ==
    /\ last' = [op |-> "getRecentMemories", limit |-> limit, sessionId |-> sessionId,
                ret |-> RecentMemories(memories, limit, sessionId)]
    /\ memories' = IF TruthyOpt(sessionId) THEN memories
                   ELSE LET compare == [a, b \in Range(memories) |-> ByTimestampDesc(a, b)]
                        IN  Sort(memories, compare)
    /\ UNCHANGED <<memoryEnabled, memoryEmbedProviderId, memoryEmbedModel, now, calls>>

\* getRecentMemories(limit, sessionId): the sort runs on the copy
\* [...filteredMemories]
GetRecentMemories(limit, sessionId) ==
    /\ last' = [op |-> "getRecentMemories", limit |-> limit, sessionId |-> sessionId,
                ret |-> RecentMemories(memories, limit, sessionId)]
    /\ UNCHANGED <<memories, memoryEnabled, memoryEmbedProviderId, memoryEmbedModel,
                   now, calls>>

\* memories.value.findIndex(m => m.id === id): 0 when there is none
FindIndex(collection, id) ==
    IF \E i \in 1..Len(collection) : collection[i].id = id
    THEN CHOOSE i \in 1..Len(collection) :
             /\ collection[i].id = id
             /\ \A j \in 1..(i - 1) : collection[j].id # id
    ELSE 0

\* splice(index, 1)
RemoveAt(collection, index) ==
    SubSeq(collection, 1, index - 1) \o SubSeq(collection, index + 1, Len(collection))

DeleteMemory(id) ==
    /\ memories' = IF FindIndex(memories, id) # 0
                   THEN RemoveAt(memories, FindIndex(memories, id))
                   ELSE memories
    /\ last' = [op |-> "deleteMemory", id |-> id]
    /\ UNCHANGED <<memoryEnabled, memoryEmbedProviderId, memoryEmbedModel, now, calls>>

ClearMemories(sessionId) ==
    /\ memories' = IF TruthyOpt(sessionId)
                   THEN LET OtherSession(m) == m.sessionId # sessionId
                        IN  SelectSeq(memories, OtherSession)
                   ELSE <<>>
    /\ last' = [op |-> "clearMemories", sessionId |-> sessionId]
    /\ UNCHANGED <<memoryEnabled, memoryEmbedProviderId, memoryEmbedModel, now, calls>>

\* memories.value.find(m => m.id === id)
GetMemoryById(id) ==
    /\ last' = [op |-> "getMemoryById", id |-> id,
                ret |-> IF FindIndex(memories, id) # 0
                        THEN Some(memories[FindIndex(memories, id)])
                        ELSE None]
    /\ UNCHANGED <<memories, memoryEnabled, memoryEmbedProviderId, memoryEmbedModel,
                   now, calls>>

\* Mutant of MergeMetadata: the metadata is replaced, an optional field
\* that `partial` does not name is lost
MergeMetadataReplacing(metadata, partial) ==
    [timestamp |-> IF IsSome(partial.timestamp)
                   THEN Get(partial.timestamp) ELSE metadata.timestamp,
     source |-> IF IsSome(partial.source) THEN Get(partial.source) ELSE metadata.source,
     importance |-> IF IsSome(partial.importance) THEN Get(partial.importance) ELSE None,
     tags |-> IF IsSome(partial.tags) THEN Get(partial.tags) ELSE None]

\* { ...memory.metadata, ...metadata }: a field of `partial` is None when the
\* key is absent and Some(value) when it is present
MergeMetadata(metadata, partial) ==
    [timestamp |-> IF IsSome(partial.timestamp)
                   THEN Get(partial.timestamp) ELSE metadata.timestamp,
     source |-> IF IsSome(partial.source) THEN Get(partial.source) ELSE metadata.source,
     importance |-> IF IsSome(partial.importance)
                    THEN Get(partial.importance) ELSE metadata.importance,
     tags |-> IF IsSome(partial.tags) THEN Get(partial.tags) ELSE metadata.tags]

\* Mutant of UpdateMemoryMetadata: the entry is rebuilt from its text and
\* loses its vector
UpdateMemoryRebuilding(id, partial) ==
    /\ memories' = IF FindIndex(memories, id) # 0
                   THEN [memories EXCEPT ![FindIndex(memories, id)] =
                             [@ EXCEPT !.metadata = MergeMetadata(@, partial),
                                       !.embedding = None]]
                   ELSE memories
    /\ last' = [op |-> "updateMemoryMetadata", id |-> id, partial |-> partial]
    /\ UNCHANGED <<memoryEnabled, memoryEmbedProviderId, memoryEmbedModel, now, calls>>

UpdateMemoryMetadata(id, partial) ==
    /\ memories' = IF FindIndex(memories, id) # 0
                   THEN [memories EXCEPT ![FindIndex(memories, id)].metadata =
                             MergeMetadata(@, partial)]
                   ELSE memories
    /\ last' = [op |-> "updateMemoryMetadata", id |-> id, partial |-> partial]
    /\ UNCHANGED <<memoryEnabled, memoryEmbedProviderId, memoryEmbedModel, now, calls>>

-----------------------------------------------------------------------------
(* The store: every operation, on small argument sets *)

NoMetadata == [source |-> None, importance |-> None, tags |-> None, sessionId |-> None]

\* storeMemory("a") and
\* storeMemory("b", {source: 'test', importance: 0.6, tags: ['user'], sessionId: 's1'})
StoreArgs ==
    {[content |-> "a", metadata |-> NoMetadata],
     [content |-> "b",
      metadata |-> [source |-> Some("test"), importance |-> Some(6),
                    tags |-> Some(<<"user">>), sessionId |-> Some("s1")]]}

SessionArgs == {None, Some(""), Some("s1")}

StoreVectors == {<<3, 4>>}
QueryVectors == {<<3, 4>>}

SearchOptions ==
    {[query |-> "a", limit |-> None, threshold |-> None, sessionId |-> None],
     [query |-> "a", limit |-> Some(1), threshold |-> Some(0), sessionId |-> Some("s1")]}

NoPartial == [timestamp |-> None, source |-> None, importance |-> None, tags |-> None]

Partials == {[NoPartial EXCEPT !.importance = Some(Some(9))]}

\* No integration adapter has been constructed: the store is used on its own
NoIntegration ==
    /\ hooksSetup = FALSE
    /\ hooks = [assistant |-> 0, user |-> 0]
    /\ activeSessionId = "s1"
    /\ effectPending = FALSE

Init ==
    /\ memories = <<>>
    /\ memoryEnabled = FALSE
    /\ memoryEmbedProviderId = ""
    /\ memoryEmbedModel = ""
    /\ now = 0
    /\ calls = [c \in 1..MaxCalls |-> IdleCall]
    /\ last = NoOperation
    /\ NoIntegration

Next ==
    \/ \E b \in BOOLEAN : SetMemoryEnabled(b)
        /\ UNCHANGED integrationVars
    \/ \E p \in ProviderIds : SetMemoryEmbedProviderId(p)
        /\ UNCHANGED integrationVars
    \/ \E m \in ModelIds : SetMemoryEmbedModel(m)
        /\ UNCHANGED integrationVars
    \/ Tick
        /\ UNCHANGED integrationVars
    \/ \E c \in Slots, args \in StoreArgs, suffix \in Suffixes :
            StoreCall(c, args.content, args.metadata, suffix)
        /\ UNCHANGED integrationVars
    \/ \E c \in Slots, outcome \in LookupOutcomes : StoreProviderResolved(c, outcome)
        /\ UNCHANGED integrationVars
    \/ \E c \in Slots, outcome \in GenerateOutcomes(StoreVectors) :
            StoreGenerateResolved(c, outcome)
        /\ UNCHANGED integrationVars
    \/ \E c \in Slots, options \in SearchOptions : SearchCall(c, options)
        /\ UNCHANGED integrationVars
    \/ \E c \in Slots, outcome \in LookupOutcomes : SearchProviderResolved(c, outcome)
        /\ UNCHANGED integrationVars
    \/ \E c \in Slots, outcome \in GenerateOutcomes(QueryVectors) :
            SearchGenerateResolved(c, outcome)
        /\ UNCHANGED integrationVars
    \/ \E id \in Ids : DeleteMemory(id)
        /\ UNCHANGED integrationVars
    \/ \E sessionId \in SessionArgs : ClearMemories(sessionId)
        /\ UNCHANGED integrationVars
    \/ \E id \in Ids, partial \in Partials : UpdateMemoryMetadata(id, partial)
        /\ UNCHANGED integrationVars

Spec == Init /\ [][Next]_vars


-----------------------------------------------------------------------------
(* The reads on a stored collection: searchMemories (SpecSearch), and          *)
(* getRecentMemories and getMemoryById (SpecRecent), started from every        *)
(* collection of up to MaxRankLen entries drawn from StoredProfiles, with the  *)
(* store configured                                                            *)

\* embedding, sessionId and timestamp of a stored entry
StoredProfiles ==
    {[embedding |-> Some(<<3, 4>>), sessionId |-> Some("s1"), timestamp |-> 0],
     [embedding |-> Some(<<4, 3>>), sessionId |-> Some("s1"), timestamp |-> 1],
     [embedding |-> Some(<<3, 4>>), sessionId |-> Some(""), timestamp |-> 1],
     [embedding |-> Some(<<5, 0>>), sessionId |-> None, timestamp |-> 0],
     [embedding |-> None, sessionId |-> Some("s1"), timestamp |-> 1],
     [embedding |-> Some(<<>>), sessionId |-> None, timestamp |-> 0]}

\* Suffixes of the stored entries, one per position: all stored in millisecond
\* 0, each with a suffix of its own
StoredSuffixes ==
    <<"a1", "b2", "c3", "d4", "e5", "f6", "g7", "h8", "i9", "j0", "k1">>

\* The i-th entry of a stored collection
StoredEntry(i, profile) ==
    [id |-> MemoryId(0, StoredSuffixes[i]),
     content |-> "a",
     embedding |-> profile.embedding,
     metadata |-> [timestamp |-> profile.timestamp, source |-> "chat",
                   importance |-> None, tags |-> None],
     sessionId |-> profile.sessionId]

StoredCollections ==
    UNION {{[i \in 1..n |-> StoredEntry(i, profiles[i])] :
                profiles \in [1..n -> StoredProfiles]} : n \in 0..MaxRankLen}

\* Collections longer than the default limits: one entry more than
\* getRecentMemories returns by default, all of one profile
LongCollections ==
    {[i \in 1..(DefaultRecentLimit + 1) |-> StoredEntry(i, profile)] :
        profile \in StoredProfiles}

StoredIds == {MemoryId(0, StoredSuffixes[i]) : i \in 1..MaxRankLen}

RankQueryVectors == {<<3, 4>>, <<4, 3>>, <<0, 0>>, <<5>>}

RankOptions ==
    [query : {"a"},
     limit : {None, Some(0), Some(1)},
     threshold : {None, Some(96), Some(0)},
     sessionId : SessionArgs]

RecentLimits == {None, Some(0), Some(1), Some(2)}

InitRead ==
    /\ memories \in StoredCollections \cup LongCollections
    /\ memoryEnabled = TRUE
    /\ memoryEmbedProviderId = "p"
    /\ memoryEmbedModel = "m"
    /\ now = MaxTime
    /\ calls = [c \in 1..1 |-> IdleCall]
    /\ last = NoOperation
    /\ NoIntegration

NextSearch ==
    \/ \E c \in Slots, options \in RankOptions : SearchCall(c, options)
        /\ UNCHANGED integrationVars
    \/ \E c \in Slots, outcome \in LookupOutcomes : SearchProviderResolved(c, outcome)
        /\ UNCHANGED integrationVars
    \/ \E c \in Slots, outcome \in GenerateOutcomes(RankQueryVectors) :
            SearchGenerateResolved(c, outcome)
        /\ UNCHANGED integrationVars

SpecSearch == InitRead /\ [][NextSearch]_vars

NextRecent ==
    \/ \E limit \in RecentLimits, sessionId \in SessionArgs :
            GetRecentMemories(limit, sessionId)
        /\ UNCHANGED integrationVars
    \/ \E id \in StoredIds : GetMemoryById(id)
        /\ UNCHANGED integrationVars

SpecRecent == InitRead /\ [][NextRecent]_vars

\* All three reads together, on the collections of up to MaxRankLen - 1 entries
InitReads ==
    /\ InitRead
    /\ Len(memories) < MaxRankLen

NextReads == NextSearch \/ NextRecent

SpecReads == InitReads /\ [][NextReads]_vars


-----------------------------------------------------------------------------
(* The synchronous writes on a stored collection (SpecMutate): deleteMemory,   *)
(* clearMemories and updateMemoryMetadata, started from the collections of up  *)
(* to MaxMutateLen entries and from collections in which two entries were      *)
(* stored under one id (same millisecond, same suffix)                         *)

MutateCollections == {collection \in StoredCollections : Len(collection) <= MaxMutateLen}

\* The second entry carries the id of the first
DuplicateIdCollections ==
    {[collection EXCEPT ![2].id = collection[1].id] :
        collection \in {c \in MutateCollections : Len(c) >= 2}}

\* Ids of the stored entries and one id that no entry has
MutateIds == {MemoryId(0, StoredSuffixes[i]) : i \in 1..(MaxMutateLen + 1)}

\* {}, {importance: 0.9} and {source: 'edit', tags: ['x']}
MutatePartials ==
    {NoPartial,
     [NoPartial EXCEPT !.importance = Some(Some(9))],
     [NoPartial EXCEPT !.source = Some("edit"), !.tags = Some(Some(<<"x">>))]}

InitMutate ==
    /\ memories \in MutateCollections \cup DuplicateIdCollections
    /\ memoryEnabled = TRUE
    /\ memoryEmbedProviderId = "p"
    /\ memoryEmbedModel = "m"
    /\ now = MaxTime
    /\ calls = [c \in 1..1 |-> IdleCall]
    /\ last = NoOperation
    /\ NoIntegration

NextMutate ==
    \/ \E id \in MutateIds : DeleteMemory(id)
        /\ UNCHANGED integrationVars
    \/ \E sessionId \in SessionArgs : ClearMemories(sessionId)
        /\ UNCHANGED integrationVars
    \/ \E id \in MutateIds, partial \in MutatePartials : UpdateMemoryMetadata(id, partial)
        /\ UNCHANGED integrationVars

SpecMutate == InitMutate /\ [][NextMutate]_vars


-----------------------------------------------------------------------------
(* storeMemory and searchMemories against a failing provider (SpecProvider):   *)
(* the configured store, a stored collection, and a provider whose lookup and  *)
(* generation fail in every way                                                *)

ProviderOutcomes == GenerateOutcomes(StoreVectors) \cup {MalformedOutcome}

InitProvider ==
    /\ memories \in MutateCollections
    /\ memoryEnabled = TRUE
    /\ memoryEmbedProviderId = "p"
    /\ memoryEmbedModel = "m"
    /\ now = MaxTime
    /\ calls = [c \in 1..1 |-> IdleCall]
    /\ last = NoOperation
    /\ NoIntegration

NextProvider ==
    \/ \E c \in Slots, args \in StoreArgs, suffix \in Suffixes :
            StoreCall(c, args.content, args.metadata, suffix)
        /\ UNCHANGED integrationVars
    \/ \E c \in Slots, outcome \in LookupOutcomes : StoreProviderResolved(c, outcome)
        /\ UNCHANGED integrationVars
    \/ \E c \in Slots, outcome \in ProviderOutcomes : StoreGenerateResolved(c, outcome)
        /\ UNCHANGED integrationVars
    \/ \E c \in Slots, options \in SearchOptions : SearchCall(c, options)
        /\ UNCHANGED integrationVars
    \/ \E c \in Slots, outcome \in LookupOutcomes : SearchProviderResolved(c, outcome)
        /\ UNCHANGED integrationVars
    \/ \E c \in Slots, outcome \in ProviderOutcomes : SearchGenerateResolved(c, outcome)
        /\ UNCHANGED integrationVars

SpecProvider == InitProvider /\ [][NextProvider]_vars


-----------------------------------------------------------------------------
(* The chat integration (useMemoryIntegration): the importance scorer          *)

\* A score is an IEEE double of [0.5, 1], written tenths/10 + err * u with
\* u = 1/(10 * 2^56).  The doubles of [0.5, 1) are the multiples of 2^-53 = 80 u,
\* and 1/10 = 2^56 u with 2^56 = 16 (mod 80): tenths/10 + err * u is a double
\* exactly when 16 * tenths + err is a multiple of 80.
\* The double nearest to tenths/10 + exact * u (round to nearest, ties to the
\* even mantissa; the mantissa of a double on the grid has the parity of
\* tenths + (16 * tenths + err) / 80)
RoundToDouble(tenths, exact) ==
    LET r == (16 * tenths + exact) % 80
        lower == exact - r
        upper == lower + 80
        lowerEven == (tenths + ((16 * tenths + lower) \div 80)) % 2 = 0
    IN  [tenths |-> tenths,
         err |-> IF r = 0 THEN exact
                 ELSE IF r < 40 \/ (r = 40 /\ lowerEven) THEN lower ELSE upper]

\* The value of a decimal literal 0.5, 0.6, ..., 1.0
DoubleOf(tenths) == RoundToDouble(tenths, 0)

\* score += 0.1: the literal 0.1 is the double 1/10 + 4 u
AddPointOne(score) == RoundToDouble(score.tenths + 1, score.err + DoubleErrOfPointOne)

\* Math.min on two scores
MinScore(a, b) ==
    IF a.tenths < b.tenths \/ (a.tenths = b.tenths /\ a.err <= b.err) THEN a ELSE b

\* A text is known by its length, by whether it contains '?' and by whether
\* it is blank (empty or whitespace only: trim() gives '')
EmptyText == [length |-> 0, question |-> FALSE, blank |-> TRUE]

\* parts.join(' ')
RECURSIVE JoinTexts(_)
JoinTexts(texts) ==
    IF texts = <<>> THEN EmptyText
    ELSE IF Len(texts) = 1 THEN texts[1]
    ELSE LET rest == JoinTexts(Tail(texts))
         IN  [length |-> texts[1].length + 1 + rest.length,
              question |-> texts[1].question \/ rest.question,
              blank |-> texts[1].blank /\ rest.blank]

\* extractTextFromMessage(message): the content is a string, or an array of
\* parts of which the text parts are joined, or something else
extractTextFromMessage(message) ==
    IF message.content.kind = "string" THEN message.content.text
    ELSE IF message.content.kind = "parts"
    THEN LET IsText(part) == part.type = "text"
             textParts == SelectSeq(message.content.parts, IsText)
         IN  JoinTexts([i \in 1..Len(textParts) |-> textParts[i].text])
    ELSE EmptyText

\* calculateImportance(message)
calculateImportance(message) ==
    LET text == extractTextFromMessage(message)
        s0 == DoubleOf(5)
        s1 == IF text.length > 100 THEN AddPointOne(s0) ELSE s0
        s2 == IF text.length > 500 THEN AddPointOne(s1) ELSE s1
        s3 == IF text.question THEN AddPointOne(s2) ELSE s2
        s4 == IF message.role = "user" THEN AddPointOne(s3) ELSE s3
    IN  MinScore(s4, DoubleOf(10))

CalculateImportance(message) ==
    /\ last' = [op |-> "calculateImportance", message |-> message,
                ret |-> calculateImportance(message)]
    /\ UNCHANGED <<memories, memoryEnabled, memoryEmbedProviderId, memoryEmbedModel,
                   now, calls>>

\* Texts around the two length marks, with and without a question mark
ScoredTexts ==
    [length : {5, 100, 101, 150, 500, 501, 600}, question : BOOLEAN, blank : {FALSE}]

\* Parts of an array content: short texts and an image
ScoredParts ==
    {[type |-> "text", text |-> [length |-> n, question |-> q, blank |-> FALSE]] :
        n \in {50, 450}, q \in BOOLEAN}
        \cup {[type |-> "image"]}

ScoredContents ==
    {[kind |-> "string", text |-> text] : text \in ScoredTexts}
        \cup {[kind |-> "parts", parts |-> parts] :
                parts \in UNION {[1..n -> ScoredParts] : n \in 0..MaxParts}}
        \cup {[kind |-> "other"]}

ScoredMessages == [role : {"user", "assistant", "system"}, content : ScoredContents]

NextImportance ==
    \E message \in ScoredMessages : CalculateImportance(message)
        /\ UNCHANGED integrationVars

SpecImportance == Init /\ [][NextImportance]_vars


-----------------------------------------------------------------------------
(* The chat integration: storeMessageAsMemory (SpecStoreMessage), called on a  *)
(* store whose collection is still empty                                       *)

\* The chat sessions
ChatSessions == {"s1", "s2"}

\* Mutant of shouldStoreMessage: a text of whitespace only is not skipped
shouldStoreMessageNoTrim(message) ==
    LET text == extractTextFromMessage(message)
    IN  IF text.length < 10 THEN FALSE
        ELSE IF message.role = "system" THEN FALSE
        ELSE TRUE

\* shouldStoreMessage(message)
shouldStoreMessage(message) ==
    LET text == extractTextFromMessage(message)
    IN  IF text.blank THEN FALSE
        ELSE IF text.length < 10 THEN FALSE
        ELSE IF message.role = "system" THEN FALSE
        ELSE TRUE

\* The metadata storeMessageAsMemory passes to storeMemory; the importance is
\* the score of calculateImportance
MessageMetadata(message, sessionId) ==
    [source |-> Some("chat"), importance |-> Some(calculateImportance(message)),
     tags |-> Some(<<message.role>>), sessionId |-> Some(sessionId)]

\* storeMessageAsMemory(message, sessionId) up to the first await of the
\* storeMemory call it makes (both configuration checks fall in the same
\* synchronous run, so storeMemory passes its own)
StoreMessageAsMemory(c, message, sessionId, suffix) ==
    LET text == extractTextFromMessage(message)
        metadata == MessageMetadata(message, sessionId)
        observed == [op |-> "storeMessageAsMemory", message |-> message,
                     sessionId |-> sessionId, config |-> ConfigNow]
    IN  /\ FreeSlot(c)
        /\ IF ~Truthy(isConfigured) \/ ~shouldStoreMessage(message)
           THEN /\ last' = observed @@ [storeCalls |-> 0, args |-> None]
                /\ UNCHANGED <<memories, calls>>
           ELSE /\ Len(memories) + StoresInFlight < MaxMemories
                /\ calls' = [calls EXCEPT ![c] =
                        [op |-> "storeMemory", pc |-> "awaitProvider",
                         entry |-> NewEntry(text, metadata, now, suffix, now),
                         config |-> ConfigNow,
                         providerId |-> memoryEmbedProviderId]]
                /\ last' = observed @@
                               [storeCalls |-> 1,
                                args |-> Some([content |-> text, metadata |-> metadata])]
                /\ UNCHANGED memories
        /\ UNCHANGED <<memoryEnabled, memoryEmbedProviderId, memoryEmbedModel, now>>

\* Texts around the 10 characters, and blank texts of 0 and 12 characters
MessageTexts ==
    {[length |-> n, question |-> FALSE, blank |-> FALSE] : n \in {5, 9, 10, 150}}
        \cup {[length |-> n, question |-> FALSE, blank |-> TRUE] : n \in {0, 12}}

MessageParts ==
    {[type |-> "text", text |-> text] :
        text \in {[length |-> 4, question |-> FALSE, blank |-> FALSE],
                  [length |-> 6, question |-> TRUE, blank |-> FALSE],
                  [length |-> 5, question |-> FALSE, blank |-> TRUE]}}
        \cup {[type |-> "image"]}

MessageContents ==
    {[kind |-> "string", text |-> text] : text \in MessageTexts}
        \cup {[kind |-> "parts", parts |-> parts] :
                parts \in UNION {[1..n -> MessageParts] : n \in 0..MaxParts}}
        \cup {[kind |-> "other"]}

StoredMessages == [role : {"user", "assistant", "system"}, content : MessageContents]

InitStoreMessage ==
    /\ memories = <<>>
    /\ memoryEnabled \in BOOLEAN
    /\ \E id \in ProviderIds :
          /\ memoryEmbedProviderId = id
          /\ memoryEmbedModel = (IF id = "" THEN "" ELSE "m")
    /\ now = 0
    /\ calls = [c \in 1..1 |-> IdleCall]
    /\ last = NoOperation
    /\ NoIntegration

NextStoreMessage ==
    \/ \E c \in Slots, message \in StoredMessages, sessionId \in ChatSessions :
            /\ memories = <<>>
            /\ StoreMessageAsMemory(c, message, sessionId, "k3f")
        /\ UNCHANGED integrationVars
    \/ \E c \in Slots, outcome \in LookupOutcomes : StoreProviderResolved(c, outcome)
        /\ UNCHANGED integrationVars
    \/ \E c \in Slots, outcome \in GenerateOutcomes(StoreVectors) :
            StoreGenerateResolved(c, outcome)
        /\ UNCHANGED integrationVars

SpecStoreMessage == InitStoreMessage /\ [][NextStoreMessage]_vars


-----------------------------------------------------------------------------
(* The chat integration: the lifecycle hooks (SpecIntegration).  One adapter,  *)
(* constructed on a store with an empty collection; the chat store raises the  *)
(* two lifecycle events and calls every callback registered for the event.     *)

\* The texts a hook receives: just at and just over the 100 characters
HookTexts == {[length |-> n, question |-> FALSE] : n \in {100, 101}}

\* Mutant of HookMetadata: every assistant response gets importance 0.5
HookMetadataFlat(kind, message, sessionId) ==
    IF kind = "assistant"
    THEN [source |-> Some("chat"), importance |-> Some(5),
          tags |-> Some(<<"assistant">>), sessionId |-> Some(sessionId)]
    ELSE [source |-> Some("chat"), importance |-> Some(6),
          tags |-> Some(<<"user">>), sessionId |-> Some(sessionId)]

\* The metadata a hook passes to storeMemory; importance in tenths
HookMetadata(kind, message, sessionId) ==
    IF kind = "assistant"
    THEN [source |-> Some("chat"),
          importance |-> Some(IF message.length > 100 THEN 7 ELSE 5),
          tags |-> Some(<<"assistant">>), sessionId |-> Some(sessionId)]
    ELSE [source |-> Some("chat"), importance |-> Some(6),
          tags |-> Some(<<"user">>), sessionId |-> Some(sessionId)]

\* setupAutomaticMemoryStorage(): one more callback for each event
RegisteredOnceMore == [assistant |-> hooks.assistant + 1, user |-> hooks.user + 1]

\* Mutant of WatchEffectRun: hooksSetup is not consulted
WatchEffectRunUnguarded ==
    /\ effectPending
    /\ effectPending' = FALSE
    /\ IF memoryEnabled
       THEN hooks' = RegisteredOnceMore /\ hooksSetup' = TRUE
       ELSE UNCHANGED <<hooks, hooksSetup>>
    /\ last' = NoOperation
    /\ UNCHANGED <<memories, memoryEnabled, memoryEmbedProviderId, memoryEmbedModel,
                   now, calls, activeSessionId>>

\* The watchEffect runs again after memoryEnabled has changed
WatchEffectRun ==
    /\ effectPending
    /\ effectPending' = FALSE
    /\ IF memoryEnabled /\ ~hooksSetup
       THEN hooks' = RegisteredOnceMore /\ hooksSetup' = TRUE
       ELSE UNCHANGED <<hooks, hooksSetup>>
    /\ last' = NoOperation
    /\ UNCHANGED <<memories, memoryEnabled, memoryEmbedProviderId, memoryEmbedModel,
                   now, calls, activeSessionId>>

\* memoryEnabled is written while the adapter exists: its effect is due
ToggleEnabled(b) ==
    /\ SetMemoryEnabled(b)
    /\ effectPending' = TRUE
    /\ UNCHANGED <<hooksSetup, hooks, activeSessionId>>

\* The user moves to another chat session
SwitchSession(sessionId) ==
    /\ activeSessionId # sessionId
    /\ activeSessionId' = sessionId
    /\ last' = NoOperation
    /\ UNCHANGED <<memories, memoryEnabled, memoryEmbedProviderId, memoryEmbedModel,
                   now, calls, hooksSetup, hooks, effectPending>>

FreeSlots == {c \in Slots : calls[c].op = "idle"}

\* The place of a free slot among the free slots
FreeRank(c) == Cardinality({d \in FreeSlots : d <= c})

\* A lifecycle event ("assistant": the assistant response has ended, "user":
\* a message has been sent): the chat store calls the callbacks registered for
\* it, each of which reads memoryEnabled and calls storeMemory, which runs up
\* to its first await.  suffixes[i] is the random suffix of the i-th call.
HookEvent(kind, message, suffixes) ==
    LET n == hooks[kind]
        metadata == HookMetadata(kind, message, activeSessionId)
        observed == [op |-> "hookEvent", kind |-> kind, message |-> message,
                     enabled |-> memoryEnabled, sessionId |-> activeSessionId]
    IN  /\ IF ~memoryEnabled \/ n = 0
           THEN /\ last' = observed @@ [storeCalls |-> 0, args |-> None]
                /\ UNCHANGED <<memories, calls>>
           ELSE IF ~Truthy(isConfigured)
           THEN /\ last' = observed @@
                               [storeCalls |-> n,
                                args |-> Some([content |-> message, metadata |-> metadata])]
                /\ UNCHANGED <<memories, calls>>
           ELSE /\ Cardinality(FreeSlots) >= n
                /\ Len(memories) + StoresInFlight + n <= MaxMemories
                /\ DOMAIN suffixes = 1..n
                /\ calls' = [c \in Slots |->
                                IF c \in FreeSlots /\ FreeRank(c) <= n
                                THEN [op |-> "storeMemory", pc |-> "awaitProvider",
                                      entry |-> NewEntry(message, metadata, now,
                                                         suffixes[FreeRank(c)], now),
                                      config |-> ConfigNow,
                                      providerId |-> memoryEmbedProviderId]
                                ELSE calls[c]]
                /\ last' = observed @@
                               [storeCalls |-> n,
                                args |-> Some([content |-> message, metadata |-> metadata])]
                /\ UNCHANGED memories
        /\ UNCHANGED <<memoryEnabled, memoryEmbedProviderId, memoryEmbedModel, now,
                       hooksSetup, hooks, activeSessionId, effectPending>>

\* The adapter has just been constructed: its watchEffect has run once, on the
\* persisted flag
InitIntegration ==
    /\ memories = <<>>
    /\ memoryEnabled \in BOOLEAN
    /\ \E id \in {"", "p"} :
          /\ memoryEmbedProviderId = id
          /\ memoryEmbedModel = (IF id = "" THEN "" ELSE "m")
    /\ now = 0
    /\ calls = [c \in 1..MaxHooks |-> IdleCall]
    /\ last = NoOperation
    /\ hooksSetup = memoryEnabled
    /\ hooks = IF memoryEnabled THEN [assistant |-> 1, user |-> 1]
                                ELSE [assistant |-> 0, user |-> 0]
    /\ activeSessionId = "s1"
    /\ effectPending = FALSE

NextIntegration ==
    \/ \E b \in BOOLEAN : ToggleEnabled(b)
    \/ WatchEffectRun
    \/ \E sessionId \in ChatSessions : SwitchSession(sessionId)
    \/ \E kind \in {"assistant", "user"}, message \in HookTexts,
          suffixes \in UNION {[1..n -> {"k3f"}] : n \in 0..MaxHooks} :
            HookEvent(kind, message, suffixes)
    \/ \E c \in Slots, outcome \in LookupOutcomes : StoreProviderResolved(c, outcome)
        /\ UNCHANGED integrationVars
    \/ \E c \in Slots, outcome \in GenerateOutcomes(StoreVectors) :
            StoreGenerateResolved(c, outcome)
        /\ UNCHANGED integrationVars

SpecIntegration == InitIntegration /\ [][NextIntegration]_vars


-----------------------------------------------------------------------------
(* The documented setup (SpecDocumentedSetup): the application constructs the  *)
(* adapter and calls its setupAutomaticMemoryStorage() once                    *)

\* Calls of setupAutomaticMemoryStorage() made by the application: the
\* callbacks registered beyond the one of the adapter's own effect
ManualSetups == hooks.user - (IF hooksSetup THEN 1 ELSE 0)

\* setupAutomaticMemoryStorage(), called by the application, once
SetupAutomaticMemoryStorage ==
    /\ ManualSetups = 0
    /\ hooks' = RegisteredOnceMore
    /\ last' = NoOperation
    /\ UNCHANGED <<memories, memoryEnabled, memoryEmbedProviderId, memoryEmbedModel,
                   now, calls, hooksSetup, activeSessionId, effectPending>>

NextDocumentedSetup ==
    \/ SetupAutomaticMemoryStorage
    \/ NextIntegration

SpecDocumentedSetup == InitIntegration /\ [][NextDocumentedSetup]_vars


-----------------------------------------------------------------------------
(* Store, then search for the same text (SpecRoundTrip): the configured store, *)
(* a collection that holds at most one entry stored before, and a gateway      *)
(* that answers every request with the vector of the requested text            *)

\* The vector the gateway returns for a text
GatewayVector == [t |-> <<3, 4>>, u |-> <<4, 3>>]

GatewayTexts == DOMAIN GatewayVector

\* searchMemories({ query }), with the threshold left out or given as 0.7, and
\* the limit left out or 1
RoundTripOptions ==
    [query : GatewayTexts,
     limit : {None, Some(1)},
     threshold : {None, Some(DefaultThreshold)},
     sessionId : {None}]

InitRoundTrip ==
    /\ memories \in {collection \in StoredCollections : Len(collection) < MaxMemories}
    /\ memoryEnabled = TRUE
    /\ memoryEmbedProviderId = "p"
    /\ memoryEmbedModel = "m"
    /\ now = MaxTime
    /\ calls = [c \in 1..1 |-> IdleCall]
    /\ last = NoOperation
    /\ NoIntegration

NextRoundTrip ==
    \/ \E c \in Slots, content \in GatewayTexts, suffix \in Suffixes :
            StoreCall(c, content, NoMetadata, suffix)
        /\ UNCHANGED integrationVars
    \/ \E c \in Slots : StoreProviderResolved(c, "ok")
        /\ UNCHANGED integrationVars
    \/ \E c \in Slots :
            /\ calls[c].op = "storeMemory"
            /\ StoreGenerateResolved(c, [kind |-> "data",
                                         embedding |-> GatewayVector[calls[c].entry.content]])
        /\ UNCHANGED integrationVars
    \/ \E c \in Slots, options \in RoundTripOptions : SearchCall(c, options)
        /\ UNCHANGED integrationVars
    \/ \E c \in Slots : SearchProviderResolved(c, "ok")
        /\ UNCHANGED integrationVars
    \/ \E c \in Slots :
            /\ calls[c].op = "searchMemories"
            /\ SearchGenerateResolved(c, [kind |-> "data",
                                          embedding |-> GatewayVector[calls[c].options.query]])
        /\ UNCHANGED integrationVars

SpecRoundTrip == InitRoundTrip /\ [][NextRoundTrip]_vars


-----------------------------------------------------------------------------
(* cosineSimilarity on vectors of every length up to two, zero vectors and the *)
(* empty vector included, and searches whose query vector differs in length    *)
(* from the stored ones (SpecCosine)                                           *)

CosineVectors == {<<>>, <<0>>, <<5>>, <<0, 0>>, <<3, 4>>, <<4, 3>>, <<0, 5>>}

\* One evaluation of cosineSimilarity(a, b)
CosineSimilarity(a, b) ==
    /\ last' = [op |-> "cosineSimilarity", a |-> a, b |-> b,
                ret |-> cosineSimilarity(a, b), divisor |-> CosineDivisor(a, b)]
    /\ UNCHANGED <<memories, memoryEnabled, memoryEmbedProviderId, memoryEmbedModel,
                   now, calls>>

\* Query vectors of length 0, 1 and 2
CosineQueryVectors == {<<>>, <<5>>, <<3, 4>>, <<0, 0>>}

\* threshold omitted, 0.01, 0 and -0.1
CosineOptions ==
    [query : {"a"},
     limit : {None},
     threshold : {None, Some(1), Some(0), Some(-10)},
     sessionId : {None}]

NextCosine ==
    \/ \E a \in CosineVectors, b \in CosineVectors : CosineSimilarity(a, b)
        /\ UNCHANGED integrationVars
    \/ \E c \in Slots, options \in CosineOptions : SearchCall(c, options)
        /\ UNCHANGED integrationVars
    \/ \E c \in Slots : SearchProviderResolved(c, "ok")
        /\ UNCHANGED integrationVars
    \/ \E c \in Slots, v \in CosineQueryVectors :
            SearchGenerateResolved(c, [kind |-> "data", embedding |-> v])
        /\ UNCHANGED integrationVars

SpecCosine == InitProvider /\ [][NextCosine]_vars


-----------------------------------------------------------------------------
(* Overlapping calls (SpecOverlap): the configured store, at first empty, and  *)
(* up to MaxOverlap storeMemory and searchMemories calls in flight at once,    *)
(* whose awaits settle in any order.  The caller names each storeMemory call   *)
(* by its place in the order of invocation.                                    *)

\* The content passed by the first, second, ... storeMemory call
InvocationNames == <<"first", "second">>

\* Place of a call in the order of invocation, from the content it passed
Ordinal(content) == CHOOSE k \in DOMAIN InvocationNames : InvocationNames[k] = content

\* storeMemory calls invoked so far (each was invoked while configured, and
\* nothing removes entries)
StoresInvoked == Len(memories) + StoresInFlight

InitOverlap ==
    /\ memories = <<>>
    /\ memoryEnabled = TRUE
    /\ memoryEmbedProviderId = "p"
    /\ memoryEmbedModel = "m"
    /\ now = 0
    /\ calls = [c \in 1..MaxOverlap |-> IdleCall]
    /\ last = NoOperation
    /\ NoIntegration

NextOverlap ==
    \/ Tick
        /\ UNCHANGED integrationVars
    \/ \E c \in Slots, suffix \in Suffixes :
            /\ StoresInvoked < Len(InvocationNames)
            /\ StoreCall(c, InvocationNames[StoresInvoked + 1], NoMetadata, suffix)
        /\ UNCHANGED integrationVars
    \/ \E c \in Slots, outcome \in LookupOutcomes : StoreProviderResolved(c, outcome)
        /\ UNCHANGED integrationVars
    \/ \E c \in Slots, outcome \in GenerateOutcomes(StoreVectors) :
            StoreGenerateResolved(c, outcome)
        /\ UNCHANGED integrationVars
    \/ \E c \in Slots :
            SearchCall(c, [query |-> "a", limit |-> None, threshold |-> None,
                           sessionId |-> None])
        /\ UNCHANGED integrationVars
    \/ \E c \in Slots, outcome \in LookupOutcomes : SearchProviderResolved(c, outcome)
        /\ UNCHANGED integrationVars
    \/ \E c \in Slots, outcome \in GenerateOutcomes(QueryVectors) :
            SearchGenerateResolved(c, outcome)
        /\ UNCHANGED integrationVars

SpecOverlap == InitOverlap /\ [][NextOverlap]_vars

\* An await of the call in slot c settles
Settles(c) ==
    /\ \/ \E outcome \in LookupOutcomes : StoreProviderResolved(c, outcome)
       \/ \E outcome \in GenerateOutcomes(StoreVectors) : StoreGenerateResolved(c, outcome)
       \/ \E outcome \in LookupOutcomes : SearchProviderResolved(c, outcome)
       \/ \E outcome \in GenerateOutcomes(QueryVectors) : SearchGenerateResolved(c, outcome)
    /\ UNCHANGED integrationVars

\* Every provider lookup and every embedding request that is outstanding
\* eventually returns or fails
SpecOverlapFair == SpecOverlap /\ \A c \in 1..MaxOverlap : WF_vars(Settles(c))


-----------------------------------------------------------------------------
(* A storeMemory call in flight while the store is disabled or emptied         *)
(* (SpecStoreInFlight): the configured store holding one entry; the flag is    *)
(* switched and entries are removed only while a call is suspended             *)

StoreInFlight == \E c \in Slots : calls[c].op = "storeMemory"

InitStoreInFlight ==
    /\ memories \in {collection \in StoredCollections : Len(collection) = 1}
    /\ memoryEnabled = TRUE
    /\ memoryEmbedProviderId = "p"
    /\ memoryEmbedModel = "m"
    /\ now = MaxTime
    /\ calls = [c \in 1..1 |-> IdleCall]
    /\ last = NoOperation
    /\ NoIntegration

NextStoreInFlight ==
    \/ \E c \in Slots, args \in StoreArgs, suffix \in Suffixes :
            StoreCall(c, args.content, args.metadata, suffix)
        /\ UNCHANGED integrationVars
    \/ \E c \in Slots, outcome \in LookupOutcomes : StoreProviderResolved(c, outcome)
        /\ UNCHANGED integrationVars
    \/ \E c \in Slots, outcome \in GenerateOutcomes(StoreVectors) :
            StoreGenerateResolved(c, outcome)
        /\ UNCHANGED integrationVars
    \/ \E b \in BOOLEAN : StoreInFlight /\ SetMemoryEnabled(b)
        /\ UNCHANGED integrationVars
    \/ \E sessionId \in SessionArgs : StoreInFlight /\ ClearMemories(sessionId)
        /\ UNCHANGED integrationVars

SpecStoreInFlight == InitStoreInFlight /\ [][NextStoreInFlight]_vars


-----------------------------------------------------------------------------
(* A searchMemories call in flight while entries are stored, deleted and       *)
(* cleared (SpecSearchInFlight): the configured store holding one entry and    *)
(* up to MaxOverlap calls in flight.  The caller passes as query the name of   *)
(* the number of entries the collection holds at the invocation.               *)

InFlightOptions ==
    {[query |-> QueryNames[Len(memories) + 1], limit |-> None, threshold |-> t,
      sessionId |-> None] : t \in {None, Some(0)}}

InitSearchInFlight ==
    /\ memories \in {collection \in StoredCollections : Len(collection) = 1}
    /\ memoryEnabled = TRUE
    /\ memoryEmbedProviderId = "p"
    /\ memoryEmbedModel = "m"
    /\ now = MaxTime
    /\ calls = [c \in 1..MaxOverlap |-> IdleCall]
    /\ last = NoOperation
    /\ NoIntegration

NextSearchInFlight ==
    \/ \E c \in Slots, options \in InFlightOptions : SearchCall(c, options)
        /\ UNCHANGED integrationVars
    \/ \E c \in Slots, outcome \in LookupOutcomes : SearchProviderResolved(c, outcome)
        /\ UNCHANGED integrationVars
    \/ \E c \in Slots, outcome \in GenerateOutcomes(QueryVectors) :
            SearchGenerateResolved(c, outcome)
        /\ UNCHANGED integrationVars
    \/ \E c \in Slots : StoreCall(c, "a", NoMetadata, "k3f")
        /\ UNCHANGED integrationVars
    \/ \E c \in Slots, outcome \in LookupOutcomes : StoreProviderResolved(c, outcome)
        /\ UNCHANGED integrationVars
    \/ \E c \in Slots, outcome \in GenerateOutcomes(StoreVectors) :
            StoreGenerateResolved(c, outcome)
        /\ UNCHANGED integrationVars
    \/ \E id \in {MemoryId(0, StoredSuffixes[1]), MemoryId(MaxTime, "k3f")} :
            DeleteMemory(id)
        /\ UNCHANGED integrationVars
    \/ \E sessionId \in {None, Some("s1")} : ClearMemories(sessionId)
        /\ UNCHANGED integrationVars

SpecSearchInFlight == InitSearchInFlight /\ [][NextSearchInFlight]_vars


-----------------------------------------------------------------------------
(* The embedding settings changed while a call is in flight (SpecReconfigure): *)
(* the store configured with provider "p" and model "m"; the settings page     *)
(* switches the provider to "q" and then the model to "n"                      *)

InitReconfigure ==
    /\ memories \in {collection \in StoredCollections : Len(collection) = 1}
    /\ memoryEnabled = TRUE
    /\ memoryEmbedProviderId = "p"
    /\ memoryEmbedModel = "m"
    /\ now = MaxTime
    /\ calls = [c \in 1..1 |-> IdleCall]
    /\ last = NoOperation
    /\ NoIntegration

NextReconfigure ==
    \/ SetMemoryEmbedProviderId("q")
        /\ UNCHANGED integrationVars
    \/ memoryEmbedProviderId = "q" /\ SetMemoryEmbedModel("n")
        /\ UNCHANGED integrationVars
    \/ \E c \in Slots, args \in StoreArgs, suffix \in Suffixes :
            StoreCall(c, args.content, args.metadata, suffix)
        /\ UNCHANGED integrationVars
    \/ \E c \in Slots, outcome \in LookupOutcomes : StoreProviderResolved(c, outcome)
        /\ UNCHANGED integrationVars
    \/ \E c \in Slots, outcome \in GenerateOutcomes(StoreVectors) :
            StoreGenerateResolved(c, outcome)
        /\ UNCHANGED integrationVars
    \/ \E c \in Slots, options \in SearchOptions : SearchCall(c, options)
        /\ UNCHANGED integrationVars
    \/ \E c \in Slots, outcome \in LookupOutcomes : SearchProviderResolved(c, outcome)
        /\ UNCHANGED integrationVars
    \/ \E c \in Slots, outcome \in GenerateOutcomes(QueryVectors) :
            SearchGenerateResolved(c, outcome)
        /\ UNCHANGED integrationVars

SpecReconfigure == InitReconfigure /\ [][NextReconfigure]_vars

\* The pairs <<provider id, model id>> that have been the configuration at
\* some instant, given the order in which the settings change
EverConfigured ==
    {<<"p", "m">>}
        \cup (IF memoryEmbedProviderId = "q" THEN {<<"q", "m">>} ELSE {})
        \cup (IF memoryEmbedModel = "n" THEN {<<"q", "n">>} ELSE {})


-----------------------------------------------------------------------------
(* The memory settings page (SpecSettingsPage): its two buttons, pressed on a  *)
(* collection that holds entries of the chat sessions and entries stored       *)
(* without a session, while the user moves between the chat sessions           *)

\* embedding, sessionId and timestamp of the entries the page is opened on
PageProfiles ==
    {[embedding |-> Some(<<3, 4>>), sessionId |-> sessionId, timestamp |-> 0] :
        sessionId \in {Some("s1"), Some("s2"), None}}

PageCollections ==
    UNION {{[i \in 1..n |-> StoredEntry(i, profiles[i])] :
                profiles \in [1..n -> PageProfiles]} : n \in 0..MaxPageLen}

\* clearMemories(sessionId) applied to a collection
ClearedMemories(collection, sessionId) ==
    IF TruthyOpt(sessionId)
    THEN LET OtherSession(m) == m.sessionId # sessionId
         IN  SelectSeq(collection, OtherSession)
    ELSE <<>>

\* The 'clear session' button: `confirmed` is what confirm() returned.  The
\* handler calls memoryStore.clearMemories() without an argument
HandleClearSessionMemories(confirmed) ==
    /\ memories' = IF confirmed THEN ClearedMemories(memories, None) ELSE memories
    /\ last' = [op |-> "handleClearSessionMemories", confirmed |-> confirmed]
    /\ UNCHANGED <<memoryEnabled, memoryEmbedProviderId, memoryEmbedModel, now, calls>>

\* The 'clear all' button
HandleClearAllMemories(confirmed) ==
    /\ memories' = IF confirmed THEN ClearedMemories(memories, None) ELSE memories
    /\ last' = [op |-> "handleClearAllMemories", confirmed |-> confirmed]
    /\ UNCHANGED <<memoryEnabled, memoryEmbedProviderId, memoryEmbedModel, now, calls>>

InitSettingsPage ==
    /\ memories \in PageCollections
    /\ memoryEnabled = TRUE
    /\ memoryEmbedProviderId = "p"
    /\ memoryEmbedModel = "m"
    /\ now = MaxTime
    /\ calls = [c \in 1..1 |-> IdleCall]
    /\ last = NoOperation
    /\ NoIntegration

NextSettingsPage ==
    \/ \E confirmed \in BOOLEAN : HandleClearSessionMemories(confirmed)
        /\ UNCHANGED integrationVars
    \/ \E confirmed \in BOOLEAN : HandleClearAllMemories(confirmed)
        /\ UNCHANGED integrationVars
    \/ \E sessionId \in ChatSessions : SwitchSession(sessionId)

SpecSettingsPage == InitSettingsPage /\ [][NextSettingsPage]_vars


-----------------------------------------------------------------------------
(* Properties *)

\* enabled AND provider id non-empty AND model id non-empty, of a configuration
\* record
AllSet(config) == config.enabled /\ config.providerId # "" /\ config.model # ""

\* C1: storeMemory invoked while the enabled flag is false, the embedding
\* provider id is empty or the embedding model id is empty returns no entry,
\* leaves the collection as it was, never suspends and issues no embedding
\* request, whatever its content and metadata.
C1_StoreNotConfigured ==
    (last.op = "storeMemory" /\ ~AllSet(last.config)) =>
        /\ last.ret = None
        /\ memories = last.before
        /\ last.awaits = 0
        /\ last.requests = 0

\* C1 witness: enabled with a provider but no model, a non-empty collection, and
\* a storeMemory with session metadata that returned nothing.
C1_Witness ==
    /\ last.op = "storeMemory"
    /\ last.config.enabled /\ last.config.providerId = "p" /\ last.config.model = ""
    /\ last.metadata.sessionId = Some("s1")
    /\ last.ret = None
    /\ Len(memories) > 0

\* C2: a storeMemory invoked while configured appends exactly one entry at the
\* end of the collection and returns it, whatever the embedding outcome; the
\* entry carries the vector when generation returned a data item and carries
\* none when the lookup threw, `generate` was missing, generation threw or the
\* result had no data.
C2_StoreAppendsOne ==
    (last.op = "storeMemory" /\ AllSet(last.config)) =>
        /\ IsSome(last.ret)
        /\ memories = Append(last.before, Get(last.ret))
        /\ last.outcome \in {"embedded", "lookupThrows", "noGenerate",
                             "generateThrows", "noData"}
        /\ (last.outcome = "embedded") = IsSome(Get(last.ret).embedding)

\* C2 witness: generation threw, and the entry without a vector is the second
\* entry of the collection.
C2_Witness ==
    /\ last.op = "storeMemory"
    /\ last.outcome = "generateThrows"
    /\ Len(memories) = 2
    /\ memories[2] = Get(last.ret)
    /\ memories[2].embedding = None
    /\ IsSome(memories[1].embedding)

\* C3: isConfigured is the boolean (enabled AND provider id non-empty AND model
\* id non-empty): false when enabled with empty provider and model, true when
\* enabled with both set.
C3_IsConfiguredBoolean ==
    isConfigured = JSBool(memoryEnabled /\ memoryEmbedProviderId # ""
                            /\ memoryEmbedModel # "")

\* C4: no two entries of the collection have the same id.
C4_UniqueIds ==
    \A i, j \in 1..Len(memories) : i # j => memories[i].id # memories[j].id

\* C5: searchMemories invoked while not configured, or while the collection is
\* empty, returns the empty sequence without suspending and without an
\* embedding request.
C5_SearchEarlyReturn ==
    (last.op = "searchMemories" /\ (~AllSet(last.at.config) \/ last.at.empty)) =>
        /\ last.ret = <<>>
        /\ last.awaits = 0
        /\ last.requests = 0

\* C5 witness: configured, and the collection empty.
C5_Witness ==
    /\ last.op = "searchMemories"
    /\ AllSet(last.at.config)
    /\ last.at.empty
    /\ last.ret = <<>>

\* C6: searchMemories returns the empty sequence when the query embedding
\* cannot be obtained (the lookup throws, `generate` is missing, generation
\* throws, the result has no data), whatever the collection holds.
C6_SearchFailureEmpty ==
    (last.op = "searchMemories"
        /\ last.outcome \in {"lookupThrows", "noGenerate", "generateThrows", "noData"})
    => last.ret = <<>>

\* C6 witness: the result had no data while the collection holds an entry with
\* a vector.
C6_Witness ==
    /\ last.op = "searchMemories"
    /\ last.outcome = "noData"
    /\ \E k \in 1..Len(memories) : memories[k].embedding = Some(<<3, 4>>)
    /\ last.ret = <<>>


\* The threshold and the limit a search ran with: 0.7 and 5 when omitted
ThresholdUsed == IF last.options.threshold = None THEN 70 ELSE Get(last.options.threshold)
LimitUsed == IF last.options.limit = None THEN 5 ELSE Get(last.options.limit)

\* The k-th stored entry is a candidate of the search that completed: it has a
\* non-empty vector and, when the search names a non-empty session, that session
IsCandidate(k) ==
    /\ IsSome(memories[k].embedding)
    /\ Get(memories[k].embedding) # <<>>
    /\ (TruthyOpt(last.options.sessionId) =>
            memories[k].sessionId = last.options.sessionId)

\* Its similarity to the query vector
SimilarityOf(k) == cosineSimilarity(last.queryEmbedding, Get(memories[k].embedding))

\* The candidates at or above the threshold
Qualifying == {k \in 1..Len(memories) : IsCandidate(k) /\ SimilarityOf(k) >= ThresholdUsed}

\* C7: a search result holds no similarity below the threshold, keeps a
\* candidate whose similarity equals the threshold (while the limit leaves
\* room), holds at most `limit` results and is sorted by non-increasing
\* similarity; threshold and limit are 0.7 and 5 when omitted.
C7_ThresholdLimitOrder ==
    (last.op = "searchMemories" /\ last.outcome = "ranked") =>
        LET r == last.ret
        IN  /\ \A i \in 1..Len(r) : r[i].similarity >= ThresholdUsed
            /\ Len(r) <= LimitUsed
            /\ \A i \in 1..(Len(r) - 1) : r[i].similarity >= r[i + 1].similarity
            /\ Len(r) < LimitUsed =>
                 \A k \in 1..Len(memories) :
                     (IsCandidate(k) /\ SimilarityOf(k) = ThresholdUsed) =>
                         \E i \in 1..Len(r) : r[i].entry = memories[k]

\* C7 witness: an explicit threshold of 0.96, met exactly by one returned
\* entry and exceeded by another.
C7_Witness ==
    /\ last.op = "searchMemories"
    /\ last.outcome = "ranked"
    /\ last.options.threshold = Some(96)
    /\ Len(last.ret) = 2
    /\ last.ret[1].similarity = 100
    /\ last.ret[2].similarity = 96

\* C7 witness of the defaults: eleven entries at similarity 1, five returned.
C7_WitnessDefaults ==
    /\ last.op = "searchMemories"
    /\ last.outcome = "ranked"
    /\ last.options.threshold = None
    /\ last.options.limit = None
    /\ Cardinality(Qualifying) > 5
    /\ Len(last.ret) = 5

\* The place of qualifying entry k in the ranking: behind every qualifying
\* entry of higher similarity and every earlier one of equal similarity
RankOf(k) ==
    1 + Cardinality({j \in Qualifying :
                        \/ SimilarityOf(j) > SimilarityOf(k)
                        \/ SimilarityOf(j) = SimilarityOf(k) /\ j < k})

\* C8: the result is the first `limit` of the qualifying candidates in
\* descending order of similarity, candidates of equal similarity in their
\* order in the collection.
C8_StableTopLimit ==
    (last.op = "searchMemories" /\ last.outcome = "ranked") =>
        /\ Len(last.ret) = Min(LimitUsed, Cardinality(Qualifying))
        /\ \A k \in Qualifying :
              RankOf(k) <= LimitUsed =>
                  last.ret[RankOf(k)] =
                      [entry |-> memories[k], similarity |-> SimilarityOf(k)]

\* C8 witness: three results, the first later in the collection than the two
\* that follow it with one equal similarity.
C8_Witness ==
    /\ last.op = "searchMemories"
    /\ last.outcome = "ranked"
    /\ Len(last.ret) = 3
    /\ last.ret[1].entry = memories[3]
    /\ last.ret[2].entry = memories[1]
    /\ last.ret[3].entry = memories[2]
    /\ last.ret[2].similarity = last.ret[3].similarity
    /\ last.ret[1].similarity > last.ret[2].similarity

\* C9: when searchMemories is given a sessionId, the empty string included,
\* every returned entry has exactly that sessionId; and no entry without a
\* vector (absent or empty) is ever returned.
C9_SessionAndEmbedding ==
    (last.op = "searchMemories") =>
        /\ IsSome(last.options.sessionId) =>
              \A i \in 1..Len(last.ret) :
                  last.ret[i].entry.sessionId = last.options.sessionId
        /\ \A i \in 1..Len(last.ret) :
              /\ last.ret[i].entry.embedding # None
              /\ last.ret[i].entry.embedding # Some(<<>>)

\* C9, for a sessionId other than the empty string: what the code does keep.
C9_NonEmptySession ==
    (last.op = "searchMemories") =>
        /\ TruthyOpt(last.options.sessionId) =>
              \A i \in 1..Len(last.ret) :
                  last.ret[i].entry.sessionId = last.options.sessionId
        /\ \A i \in 1..Len(last.ret) :
              /\ last.ret[i].entry.embedding # None
              /\ last.ret[i].entry.embedding # Some(<<>>)

\* C10: getRecentMemories(n, sessionId?) returns entries of the collection,
\* most recent first, at most n of them (10 when n is omitted) and, when a
\* sessionId is given, only entries of that session.
C10_RecentMemories ==
    (last.op = "getRecentMemories") =>
        LET r == last.ret
            n == IF last.limit = None THEN 10 ELSE Get(last.limit)
        IN  /\ \A i \in 1..(Len(r) - 1) :
                  r[i].metadata.timestamp >= r[i + 1].metadata.timestamp
            /\ Len(r) <= n
            /\ IsSome(last.sessionId) =>
                  \A i \in 1..Len(r) : r[i].sessionId = last.sessionId
            /\ \A i \in 1..Len(r) : \E k \in 1..Len(memories) : memories[k] = r[i]

\* C10, for a sessionId other than the empty string: what the code does keep.
C10_NonEmptySession ==
    (last.op = "getRecentMemories") =>
        LET r == last.ret
            n == IF last.limit = None THEN 10 ELSE Get(last.limit)
        IN  /\ \A i \in 1..(Len(r) - 1) :
                  r[i].metadata.timestamp >= r[i + 1].metadata.timestamp
            /\ Len(r) <= n
            /\ TruthyOpt(last.sessionId) =>
                  \A i \in 1..Len(r) : r[i].sessionId = last.sessionId
            /\ \A i \in 1..Len(r) : \E k \in 1..Len(memories) : memories[k] = r[i]


\* The entries of a collection that are not of the given session, in order
NotOfSession(collection, sessionId) ==
    LET Other(m) == m.sessionId # sessionId
    IN  SelectSeq(collection, Other)

\* C11: clearMemories(sessionId) with a sessionId argument, the empty string
\* included, removes exactly the entries of that session and keeps the others
\* unchanged and in order; clearMemories() leaves the collection empty.
C11_ClearExactly ==
    [][(last'.op = "clearMemories") =>
          IF IsSome(last'.sessionId)
          THEN memories' = NotOfSession(memories, last'.sessionId)
          ELSE memories' = <<>>]_vars

\* C11, for a sessionId other than the empty string: what the code does keep.
C11_NonEmptySession ==
    [][(last'.op = "clearMemories") =>
          IF TruthyOpt(last'.sessionId)
          THEN memories' = NotOfSession(memories, last'.sessionId)
          ELSE IsSome(last'.sessionId) \/ memories' = <<>>]_vars

\* The entries of a collection whose id is not the given one, in order
NotOfId(collection, id) ==
    LET Other(m) == m.id # id
    IN  SelectSeq(collection, Other)

\* C12: deleteMemory(id) leaves no entry of that id when one was present, keeps
\* every other entry unchanged and in order, and changes nothing when no entry
\* has that id.
C12_DeleteExactly ==
    [][(last'.op = "deleteMemory") =>
          /\ \A j \in 1..Len(memories') : memories'[j].id # last'.id
          /\ memories' = NotOfId(memories, last'.id)]_vars

\* C12, on a collection whose ids are pairwise different.
C12_UniqueIds ==
    [][(/\ last'.op = "deleteMemory"
        /\ \A i, j \in 1..Len(memories) : i # j => memories[i].id # memories[j].id) =>
          /\ \A j \in 1..Len(memories') : memories'[j].id # last'.id
          /\ memories' = NotOfId(memories, last'.id)]_vars

MetadataFields == {"timestamp", "source", "importance", "tags"}

\* C13: updateMemoryMetadata(id, partial) replaces in the matching entry's
\* metadata exactly the fields present in partial, keeps the metadata fields
\* that are not, leaves every other entry and the order unchanged, and
\* changes nothing when no entry has that id.
C13_UpdateExactly ==
    [][(last'.op = "updateMemoryMetadata") =>
          IF \E i \in 1..Len(memories) : memories[i].id = last'.id
          THEN \E i \in 1..Len(memories) :
                  /\ memories[i].id = last'.id
                  /\ Len(memories') = Len(memories)
                  /\ \A j \in 1..Len(memories) : j # i => memories'[j] = memories[j]
                  /\ memories'[i].id = memories[i].id
                  /\ memories'[i].content = memories[i].content
                  /\ memories'[i].embedding = memories[i].embedding
                  /\ memories'[i].sessionId = memories[i].sessionId
                  /\ \A f \in MetadataFields :
                        memories'[i].metadata[f] =
                            IF IsSome(last'.partial[f])
                            THEN Get(last'.partial[f])
                            ELSE memories[i].metadata[f]
          ELSE memories' = memories]_vars

\* C13 witness: an update of the importance alone has completed on an entry
\* whose source and tags an earlier update had set; both are still there.
C13_Witness ==
    /\ last.op = "updateMemoryMetadata"
    /\ last.partial = [NoPartial EXCEPT !.importance = Some(Some(9))]
    /\ \E i \in 1..Len(memories) :
          /\ memories[i].id = last.id
          /\ memories[i].metadata.importance = Some(9)
          /\ memories[i].metadata.source = "edit"
          /\ memories[i].metadata.tags = Some(<<"x">>)


\* id, content, sessionId and embedding of an entry
Immutables(m) ==
    [id |-> m.id, content |-> m.content, sessionId |-> m.sessionId,
     embedding |-> m.embedding]

\* s is t with some entries left out: the entries of s are entries of t, whole
\* and in the same order
IsRemainderOf(s, t) ==
    \E keep \in SUBSET (1..Len(t)) :
        /\ Cardinality(keep) = Len(s)
        /\ \A i \in 1..Len(s) :
              \E k \in keep :
                  /\ Cardinality({j \in keep : j <= k}) = i
                  /\ s[i] = t[k]

\* C14: from its creation to its removal an entry keeps its id, content,
\* sessionId and embedding; its metadata changes only in a step of
\* updateMemoryMetadata.  Every step either is an updateMemoryMetadata step that
\* keeps the four fields of every entry in place, or appends one new entry to
\* the unchanged entries, or leaves a remainder of whole unchanged entries.
C14_ImmutableFields ==
    [][IF last'.op = "updateMemoryMetadata"
       THEN /\ Len(memories') = Len(memories)
            /\ \A i \in 1..Len(memories) :
                  Immutables(memories'[i]) = Immutables(memories[i])
       ELSE \/ /\ Len(memories') = Len(memories) + 1
               /\ SubSeq(memories', 1, Len(memories)) = memories
            \/ IsRemainderOf(memories', memories)]_vars

\* C14 witness: an entry stored with a vector has had its metadata updated and
\* still carries the vector.
C14_Witness ==
    /\ last.op = "updateMemoryMetadata"
    /\ \E i \in 1..Len(memories) :
          /\ memories[i].id = last.id
          /\ memories[i].embedding = Some(<<3, 4>>)
          /\ memories[i].content = "a"
          /\ memories[i].metadata.importance = Some(9)


\* The ways the embedding provider fails
ProviderFailures == {"lookupThrows", "noGenerate", "generateThrows", "noData", "malformed"}

\* C15: no failure of the embedding provider makes storeMemory or
\* searchMemories end in an error.  A completed storeMemory has returned
\* nothing (not configured) or an entry that is now the last of the collection,
\* without a vector after a provider failure; a completed searchMemories has
\* returned a sequence of results, the empty one after a provider failure; and
\* a call in flight is waiting for the provider, not abandoned.
C15_NoErrorEscapes ==
    /\ (last.op = "storeMemory") =>
          /\ last.outcome \in ProviderFailures \cup {"notConfigured", "noProvider", "embedded"}
          /\ (last.outcome = "notConfigured") = (last.ret = None)
          /\ IsSome(last.ret) => memories = Append(last.before, Get(last.ret))
          /\ (last.outcome \in ProviderFailures) =>
                IsSome(last.ret) /\ Get(last.ret).embedding = None
    /\ (last.op = "searchMemories") =>
          /\ last.outcome \in ProviderFailures \cup {"early", "ranked"}
          /\ DOMAIN last.ret = 1..Len(last.ret)
          /\ \A i \in 1..Len(last.ret) : last.ret[i].similarity \in Int
          /\ (last.outcome \in ProviderFailures) => last.ret = <<>>
    /\ \A c \in Slots :
          calls[c].op # "idle" => calls[c].pc \in {"awaitProvider", "awaitGenerate"}

\* C15 witness: the provider returned a malformed result to storeMemory, which
\* has completed with an entry stored without a vector.
C15_Witness ==
    /\ last.op = "storeMemory"
    /\ last.outcome = "malformed"
    /\ IsSome(last.ret)
    /\ Get(last.ret).embedding = None
    /\ Len(memories) = 2
    /\ memories[2] = Get(last.ret)


\* The bonuses of a scored message: 1 over 100 characters, 1 more over 500,
\* 1 for a '?', 1 for the role user
Bonuses(message) ==
    LET text == extractTextFromMessage(message)
    IN  (IF text.length > 100 THEN 1 ELSE 0) + (IF text.length > 500 THEN 1 ELSE 0)
            + (IF text.question THEN 1 ELSE 0) + (IF message.role = "user" THEN 1 ELSE 0)

\* C16: the importance score equals 0.5 plus 0.1 per bonus, at most 1.0: a
\* short assistant message scores 0.5, a 150-character user message with a '?'
\* scores 0.8, no message scores above 1.0.
C16_ImportanceScore ==
    (last.op = "calculateImportance") =>
        /\ last.ret = DoubleOf(Min(10, 5 + Bonuses(last.message)))
        /\ MinScore(last.ret, DoubleOf(10)) = last.ret

\* C16, up to rounding: the score is within one unit in the last place of
\* 0.5 plus 0.1 per bonus, and exactly that for at most two bonuses.
C16_UpToRounding ==
    (last.op = "calculateImportance") =>
        /\ last.ret.tenths = 5 + Bonuses(last.message)
        /\ last.ret.err \in -80..80
        /\ Bonuses(last.message) <= 2 => last.ret = DoubleOf(5 + Bonuses(last.message))
        /\ MinScore(last.ret, DoubleOf(10)) = last.ret


\* What an event of the given kind stores: tags of the role, importance 0.7 for
\* an assistant response of more than 100 characters and 0.5 for a shorter one,
\* 0.6 for a user message, under the given session
ExpectedTags(kind) == IF kind = "assistant" THEN <<"assistant">> ELSE <<"user">>
ExpectedImportance(kind, message) ==
    IF kind = "assistant" THEN (IF message.length > 100 THEN 7 ELSE 5) ELSE 6

C18_RegisteredOnce ==
    /\ [](/\ hooks.assistant <= 1
          /\ hooks.user <= 1
          /\ hooksSetup = (hooks.assistant = 1)
          /\ hooksSetup = (hooks.user = 1)
          /\ (last.op = "hookEvent") => last.storeCalls <= 1)
    /\ [][hooks' # hooks => memoryEnabled]_vars

\* C18 witness: the hooks are registered, the flag has been switched off, the
\* effect has run again, and then an event fired, calling nothing.
C18_Witness ==
    /\ hooksSetup
    /\ hooks = [assistant |-> 1, user |-> 1]
    /\ ~memoryEnabled
    /\ ~effectPending
    /\ last.op = "hookEvent"
    /\ last.storeCalls = 0

\* The entries stored for a text by storeMemory with the gateway of
\* SpecRoundTrip: positions of the collection
StoredFor(text) ==
    {i \in 1..Len(memories) :
        /\ memories[i].content = text
        /\ memories[i].embedding = Some(GatewayVector[text])}

\* A search with query T and threshold 0.7 that was ranked
RoundTripSearch ==
    /\ last.op = "searchMemories"
    /\ last.outcome = "ranked"
    /\ ThresholdUsed = DefaultThreshold

\* Entries before position i that the query vector matches with similarity 1
EarlierPerfect(i) ==
    {j \in 1..(i - 1) :
        IsCandidate(j) /\ SimilarityOf(j) = 100}

AllZero(v) == \A i \in 1..Len(v) : v[i] = 0

\* C20: cosineSimilarity returns 0 without dividing when the lengths differ
\* and when either vector is all zeros (two empty vectors included), and the
\* divisor of a division it does perform is not zero; a search returns a stored
\* entry whose vector differs in length from the query vector only with
\* similarity 0 and only when the threshold is 0 or less
C20_ZeroSimilarity ==
    /\ (last.op = "cosineSimilarity") =>
          /\ (Len(last.a) # Len(last.b) \/ AllZero(last.a) \/ AllZero(last.b)) =>
                (last.ret = 0 /\ last.divisor = None)
          /\ last.divisor # Some(0)
    /\ (last.op = "searchMemories" /\ last.outcome = "ranked") =>
          \A r \in 1..Len(last.ret) :
              Len(Get(last.ret[r].entry.embedding)) # Len(last.queryEmbedding) =>
                  (last.ret[r].similarity = 0 /\ ThresholdUsed <= 0)

\* A search with threshold 0 returned an entry whose vector is longer than the
\* query vector
C20_Witness ==
    /\ last.op = "searchMemories"
    /\ last.outcome = "ranked"
    /\ ThresholdUsed = 0
    /\ Len(last.queryEmbedding) = 1
    /\ Len(last.ret) >= 1
    /\ Len(Get(last.ret[1].entry.embedding)) = 2
    /\ last.ret[1].similarity = 0

\* The step belongs to a searchMemories call: it invokes one, moves one to its
\* next await, or completes one
SearchStep ==
    \/ last'.op = "searchMemories"
    \/ \E c \in DOMAIN calls :
          /\ calls'[c] # calls[c]
          /\ calls[c].op = "searchMemories" \/ calls'[c].op = "searchMemories"

\* C21: a step of getRecentMemories, getMemoryById or searchMemories leaves the
\* collection as it was (same entries, same fields, same order), and
\* getRecentMemories starts no call on the embedding provider
C21_PureReads ==
    [][/\ (last'.op \in {"getRecentMemories", "getMemoryById"} \/ SearchStep) =>
             memories' = memories
       /\ (last'.op = "getRecentMemories") => calls' = calls]_vars

\* getRecentMemories returned the whole collection in another order than the
\* stored one
C21_Witness ==
    /\ last.op = "getRecentMemories"
    /\ Len(memories) >= 2
    /\ Len(last.ret) = Len(memories)
    /\ last.ret # memories

\* C22: a storeMemory or searchMemories call suspends at most once: when a
\* suspended call is resumed it runs to its end in that step, without
\* suspending again
C22_SuspendsOnce ==
    [][\A c \in DOMAIN calls :
          (calls[c].op \in {"storeMemory", "searchMemories"} /\ calls'[c] # calls[c]) =>
              calls'[c] = IdleCall]_vars

\* C23: the entries of storeMemory calls stand in the collection in the order
\* in which the calls were invoked, and in non-decreasing order of timestamp
C23_InvocationOrder ==
    \A i, j \in 1..Len(memories) :
        i < j =>
            /\ Ordinal(memories[i].content) < Ordinal(memories[j].content)
            /\ memories[i].metadata.timestamp <= memories[j].metadata.timestamp

\* C24: when every outstanding request eventually returns or fails, every
\* storeMemory and searchMemories call in flight eventually completes, and the
\* entry of every storeMemory call in flight is eventually in the collection
C24_CallsComplete ==
    /\ \A c \in 1..MaxOverlap : (calls[c].op # "idle") ~> (calls[c].op = "idle")
    /\ \A k \in DOMAIN InvocationNames :
          (\E c \in 1..MaxOverlap :
               /\ calls[c].op = "storeMemory"
               /\ calls[c].entry.content = InvocationNames[k])
          ~> (\E i \in 1..Len(memories) :
                  /\ memories[i].content = InvocationNames[k]
                  /\ \A c \in 1..MaxOverlap :
                        calls[c].op = "storeMemory" =>
                            calls[c].entry.content # InvocationNames[k])

\* A storeMemory call whose generation failed has completed and its entry is
\* in the collection, while a search is still in flight
C24_Witness ==
    /\ last.op = "storeMemory"
    /\ last.outcome = "generateThrows"
    /\ \E i \in 1..Len(memories) : Some(memories[i]) = last.ret
    /\ \E c \in 1..MaxOverlap : calls[c].op = "searchMemories"

\* Names of the calls whose entry is in the collection, and of those in flight
NamesStored == {memories[i].content : i \in 1..Len(memories)}
NamesInFlight ==
    {calls[c].entry.content : c \in {d \in DOMAIN calls : calls[d].op = "storeMemory"}}

\* C25: with overlapping storeMemory calls and no removal, every call invoked
\* so far has its entry either in the collection, exactly once, or still in
\* flight; a completing call appends its own entry to the collection, and no
\* step changes or removes an entry that was there
C25_NoLostAppend ==
    /\ [](/\ Cardinality(NamesStored) = Len(memories)
          /\ NamesStored \cap NamesInFlight = {}
          /\ NamesStored \cup NamesInFlight =
                {InvocationNames[k] : k \in 1..StoresInvoked})
    /\ [][/\ \A c \in DOMAIN calls :
               (calls[c].op = "storeMemory" /\ calls'[c] = IdleCall) =>
                   /\ Len(memories') = Len(memories) + 1
                   /\ Immutables(memories'[Len(memories')]) =
                          [Immutables(calls[c].entry) EXCEPT
                              !.embedding = memories'[Len(memories')].embedding]
          /\ \/ memories' = memories
             \/ SubSeq(memories', 1, Len(memories)) = memories
                    /\ Len(memories') = Len(memories) + 1]_vars

\* Two overlapping calls have completed in the order opposite to their
\* invocation, and both entries are in the collection
C25_Witness ==
    /\ Len(memories) = 2
    /\ memories[1].content = InvocationNames[2]
    /\ memories[2].content = InvocationNames[1]
    /\ \A c \in DOMAIN calls : calls[c].op # "storeMemory"

\* C26: a storeMemory call that passed the configuration check appends its
\* entry when it completes, whatever the flag is then and whatever was removed
\* while it was suspended; the flag is consulted only by the step that invokes
\* a call
C26_ChecksOnEntryOnly ==
    [][\A c \in DOMAIN calls :
          (calls[c].op = "storeMemory" /\ calls'[c] = IdleCall) =>
              /\ Len(memories') = Len(memories) + 1
              /\ SubSeq(memories', 1, Len(memories)) = memories
              /\ memories'[Len(memories')].id = calls[c].entry.id
              /\ memories'[Len(memories')].sessionId = calls[c].entry.sessionId
              /\ last'.ret = Some(memories'[Len(memories')])]_vars

\* A call completed while the flag was false and after clearMemories had
\* emptied the collection during its suspension: the collection grew from
\* empty to one entry with the store disabled
C26_Witness ==
    /\ last.op = "storeMemory"
    /\ last.config.enabled
    /\ ~memoryEnabled
    /\ last.before = <<>>
    /\ Len(memories) = 1
    /\ last.ret = Some(memories[1])

\* Occurrences of an entry in the results and in the collection
TimesReturned(e) == Cardinality({r \in 1..Len(last.ret) : last.ret[r].entry = e})
TimesHeld(e) == Cardinality({i \in 1..Len(memories) : memories[i] = e})

\* C27: a ranked search returns entries of the collection as it is when the
\* search completes: no entry more often than the collection holds it then
\* (so never an entry removed during the suspension), and every entry held
\* then that qualifies, up to the limit (so also one appended during the
\* suspension)
C27_RanksCurrentCollection ==
    (last.op = "searchMemories" /\ last.outcome = "ranked") =>
        /\ \A r \in 1..Len(last.ret) :
              TimesReturned(last.ret[r].entry) <= TimesHeld(last.ret[r].entry)
        /\ Len(last.ret) = Min(LimitUsed, Cardinality(Qualifying))

\* A search invoked on one entry returned two: the second was appended while
\* the search was suspended
C27_Witness ==
    /\ last.op = "searchMemories"
    /\ last.outcome = "ranked"
    /\ last.options.query = QueryNames[2]
    /\ Len(last.ret) = 2

\* A search invoked on one entry with threshold 0 completed on the emptied
\* collection and returned nothing
C27_WitnessRemoved ==
    /\ last.op = "searchMemories"
    /\ last.outcome = "ranked"
    /\ last.options.query = QueryNames[2]
    /\ last.options.threshold = Some(0)
    /\ memories = <<>>
    /\ last.ret = <<>>

\* C28: an embedding request that is outstanding was issued to a provider and
\* for a model that were the configured pair at one same instant
C28_ConsistentPair ==
    \A c \in DOMAIN calls :
        (calls[c].op # "idle" /\ calls[c].pc = "awaitGenerate") =>
            <<calls[c].providerId, calls[c].model>> \in EverConfigured

\* The message of the storeMessageAsMemory call just made is one of those the
\* claim excludes: store not configured, text blank, text of fewer than 10
\* characters, or role system
Excluded ==
    \/ ~AllSet(last.config)
    \/ extractTextFromMessage(last.message).blank
    \/ extractTextFromMessage(last.message).length < 10
    \/ last.message.role = "system"

\* C29: storeMessageAsMemory calls storeMemory not at all and starts no call on
\* the embedding provider for an excluded message, and otherwise exactly once,
\* with the extracted text, source 'chat', tags [role], the given session id
\* and the importance score of the message
C29_StoreMessage ==
    [][(last'.op = "storeMessageAsMemory") =>
          IF Excluded'
          THEN /\ last'.storeCalls = 0
               /\ calls' = calls
               /\ memories' = memories
          ELSE /\ last'.storeCalls = 1
               /\ last'.args =
                     Some([content |-> extractTextFromMessage(last'.message),
                           metadata |->
                               [source |-> Some("chat"),
                                importance |-> Some(calculateImportance(last'.message)),
                                tags |-> Some(<<last'.message.role>>),
                                sessionId |-> Some(last'.sessionId)]])
               /\ \E c \in DOMAIN calls :
                     /\ calls[c] = IdleCall
                     /\ calls'[c].op = "storeMemory"
                     /\ calls'[c].entry.content = Get(last'.args).content
                     /\ calls'[c].entry.sessionId = Some(last'.sessionId)
                     /\ \A d \in DOMAIN calls \ {c} : calls'[d] = calls[d]]_vars

\* A message of two text parts, 4 + 1 + 6 characters with a question mark,
\* was stored for session s2
C29_Witness ==
    /\ last.op = "storeMessageAsMemory"
    /\ last.storeCalls = 1
    /\ last.message.content.kind = "parts"
    /\ Get(last.args).content.length = 11
    /\ last.sessionId = "s2"
    /\ \E c \in DOMAIN calls : calls[c].op = "storeMemory"

\* A text of twelve whitespace characters was not stored
C29_WitnessBlank ==
    /\ last.op = "storeMessageAsMemory"
    /\ AllSet(last.config)
    /\ last.message.role = "user"
    /\ last.message.content.kind = "string"
    /\ last.message.content.text.length = 12
    /\ last.storeCalls = 0

\* C30: after the documented setup, with the store enabled and configured, an
\* event makes exactly one storeMemory call (which adds one entry)
C30_OneEntryPerEvent ==
    (/\ last.op = "hookEvent"
     /\ ManualSetups = 1
     /\ last.enabled
     /\ Truthy(isConfigured)) =>
        /\ last.storeCalls = 1
        /\ Cardinality({c \in DOMAIN calls : calls[c].op = "storeMemory"}) <= 1

\* The entries of a collection that are not of the active chat session
OfOtherSessions(collection) ==
    LET NotActive(m) == m.sessionId # Some(activeSessionId)
    IN  SelectSeq(collection, NotActive)

\* C31: on the settings page, a confirmed 'clear session' removes exactly the
\* entries of the active session and leaves the others in place, a confirmed
\* 'clear all' empties the collection, and a declined confirmation leaves the
\* collection as it was
C31_PageClears ==
    [][/\ (last'.op = "handleClearSessionMemories" /\ last'.confirmed) =>
              memories' = OfOtherSessions(memories)
       /\ (last'.op = "handleClearAllMemories" /\ last'.confirmed) =>
              memories' = <<>>
       /\ (/\ last'.op \in {"handleClearSessionMemories", "handleClearAllMemories"}
           /\ ~last'.confirmed) =>
              memories' = memories]_vars

\* What the page does: either button, once confirmed, empties the collection,
\* and a declined confirmation leaves it as it was
C31_BothButtonsEmpty ==
    [][last'.op \in {"handleClearSessionMemories", "handleClearAllMemories"} =>
          memories' = IF last'.confirmed THEN <<>> ELSE memories]_vars

\* A confirmed 'clear session' has emptied the collection while the session
\* s2 is active
C31_Witness ==
    /\ last.op = "handleClearSessionMemories"
    /\ last.confirmed
    /\ activeSessionId = "s2"
    /\ memories = <<>>


====
